---- MODULE Spec2Model ----
(***************************************************************************)
(* Model of the operator-control state machine (StrategyController) and of *)
(* the generic execution runner (StrategyRunner) of hft-backtest.          *)
(*                                                                         *)
(* Two threads: the UI thread sends StrategyCommand values on the command  *)
(* channel; the strategy thread runs run_with_controller, which calls      *)
(* process_commands at its polling points.  A third thread may call the    *)
(* public stop() of the controller (specification StopSpec).               *)
(*                                                                         *)
(* Real numbers (speed) are kept in thousandths: 0.01 is 10, 1.0 is 1000,  *)
(* 100.0 is 100000.  Simulated time (sim_time_secs, an f64 in seconds) is  *)
(* kept in nanoseconds.                                                    *)
(***************************************************************************)
EXTENDS Integers, Sequences, FiniteSets, TLC

(* ------------------------------ bounds --------------------------------- *)
\* number of data files given to the runner
NumFiles == 2
\* number of elapse quanta a data file holds before EndOfData
FileLen == 2
\* number of commands the UI sends in one behaviour
MaxCmds == 2
\* largest order id in use (ids start at 0)
MaxOrderId == 1
\* fills after which no further order is filled
MaxFills == 3
\* significant decimal digits a floating-point value keeps
SignificandDigits == 5
\* price ticks on each side of a depth snapshot, largest quantity at a tick
BookDepth == 2
MaxLevelQty == 2
\* elapse quanta a data file of the prediction runner holds, and ticks of a
\* run that make no prediction
PredFileLen == 91
MaxSkips == 1
\* distance (in thousandths) between the speeds given to the schedule
SpeedGridStep == 500
\* update_interval() of a strategy that overrides the default
SparseInterval == 2
\* elapse quanta a data file of the momentum runner holds
MomFileLen == 10
\* scheduled evaluations of the market maker in a run (the initial placement
\* and the refills)
MaxEvals == 3

\* orders a runner submits in a run
MaxOrders == 101
\* largest lookback_period of a MomentumIndicator, and update calls made
MaxLookback == 2
MaxUpdates == 4
\* largest volatility_window of a RiskManager, and update_price calls made
MaxWindow == 3
MaxPrices == 4

(* ------------------------- program constants --------------------------- *)
\* speed.clamp(0.01, 100.0), in thousandths
SPEED_MIN == 10
SPEED_MAX == 100000
\* 1.0f64, the speed at construction and after Reset
SPEED_DEFAULT == 1000
\* Strategy::update_interval default
update_interval == 1
\* config::ELAPSE_DURATION_NS (0.1 s)
ELAPSE_DURATION_NS == 100000000
\* config::UPDATE_INTERVAL
UPDATE_INTERVAL == 10
\* StrategyConfig::default().order_layers
order_layers == 2
\* StrategyConfig::default().order_size (0.01), in twelfths of it
order_size == 12
\* config::FIXED_SPREAD_TICKS
FIXED_SPREAD_TICKS == 10
\* StrategyConfig::default().max_inventory (5.0), in the unit of order_size
max_inventory == 6000
\* the window MarketMakerRunner::new gives its RiskManager
MM_VOLATILITY_WINDOW == 60
\* PredictionRunner.prediction_horizon_ns (1_000_000_000), in milliseconds
PREDICTION_HORIZON_MS == 1000
\* the length above which the pending predictions are trimmed
PENDING_MAX == 100

(* ------------------------------ values --------------------------------- *)
ControlStates == {"Running", "Paused", "Stopped", "Completed"}

\* SetSpeed(f64) arguments, in thousandths: -5, 0.001, 0.01, 1.0, 50.0,
\* 1000.0 (below, at, inside and above the clamp range)
SpeedInputs == {-5000, 1, 10, 1000, 50000, 1000000}

Cmd(k, x) == [k |-> k, x |-> x]
NoCmd == Cmd("None", 0)

\* StrategyCommand; ChangeFiles carries a file list, named by a number
Commands ==
    {Cmd(k, 0) : k \in {"Start", "Pause", "Stop", "Skip", "Reset"}}
        \cup {Cmd("SetSpeed", x) : x \in SpeedInputs}
        \cup {Cmd("ChangeFiles", 1)}

\* the commands sent to a controller that drives the runner: the buttons of
\* the control panel (Start, Pause, Stop, Skip, a speed) and Reset
RunCommands ==
    {Cmd(k, 0) : k \in {"Start", "Pause", "Stop", "Skip", "Reset"}}
        \cup {Cmd("SetSpeed", 50000)}

\* the commands that write the fields stop() writes
StopCommands == {Cmd(k, 0) : k \in {"Start", "Pause", "Stop", "Reset"}}

Resp(k, s, n) == [k |-> k, s |-> s, n |-> n]

VARIABLES
    \* StrategyController fields
    state, should_stop, should_skip, speed_multiplier,
    \* command channel (UI -> strategy): the queued commands, oldest first,
    \* each with the number of its send.  Response channel (strategy -> UI):
    \* unbounded and only drained by the UI, kept as the number of responses
    \* sent and the last one sent
    command_q, resp_count, last_resp,
    \* handle_command in progress: the command whose first store is done
    hc,
    \* strategy thread: position, loop index of run_with_controller, and the
    \* locals of run_single_file
    pc, file_idx, data_ended, update_count, iters_left,
    \* Market Simulator of the current file: quanta elapsed, book validity
    pos, depth_valid,
    \* the thread that calls stop(): position between its two stores
    stop_pc,
    \* history: commands sent, number applied, the last process_commands call
    sent_count, n_applied, last_call,
    \* history: files started, files whose on_file_end ran, files whose
    \* elapse returned Err, on_tick calls of the current file
    started, file_end_called, file_err, ticks,
    \* history: mark_completed calls; the last telemetry snapshot sent: its
    \* file, its timestamp, and whether it is the first (1) or a later (2)
    \* snapshot of that file
    completed_calls, last_snap,
    \* history: what the runner read at its last checks
    seen_running, stop_seen,
    \* history: file in which a Stop was sent / applied, direct stop pending
    stop_sent_in, stop_applied_in, stop_direct,
    \* the Strategy given to the runner: "quiet" (on_tick returns Ok and does
    \* not trade), "failing" (on_tick may return Err), "trading" (on_tick
    \* may open and close a position) or "sparse" (update_interval is
    \* overridden, on_tick may open a position); the on_tick failures of the
    \* current file; StrategyState.position as a PositionState;
    \* StrategyState.mid_price
    strategy, tick_errs, position, st_mid_price,
    \* run_single_file local loop_delay_ms
    loop_delay_ms,
    \* OrderTracker fields (active_orders as the set of its values);
    \* history: per id, the last operation on it and its result
    active_orders, filled_count, total_buy_volume, total_sell_volume,
    last_op,
    \* SpreadCalculator.gamma, and the arguments and the result of the last
    \* calculate_reservation_price call (floating-point values)
    gamma, mid_price, inventory, volatility, reservation_price,
    \* a depth snapshot (quantity per tick on each side), the levels
    \* aggregated, and the result of OrderBookImbalance::calculate
    bid_qty, ask_qty, depth_levels, imbalance,
    \* PredictionRunner: the pending FIFO, the simulated clock of the current
    \* file (current_time_ns, kept in ms), the file being run; history:
    \* entries pushed, the entries the last tick removed, ticks that did not
    \* make a prediction
    pending_predictions, current_time, pred_file, pred_pushed, pred_removed,
    pred_skips,
    \* MarketMakerRunner::run_strategy: hbt.orders(0) (per order id its
    \* status, quantity and price tick), the locals initial_orders_placed,
    \* inventory and realized_pnl (in 1/10000 of a price unit); history:
    \* evaluations made, the slots the last one submitted and those of them
    \* the simulator rejected, fills made by the exchange and their net
    \* quantity (buys minus sells)
    orders, initial_orders_placed, mm_inventory, mm_realized_pnl,
    eval_count, last_submitted, last_rejected, fill_count, net_filled,
    \* the arguments of the last quote computation of the market maker and
    \* the quote it produced
    quote_in, quote_out,
    \* the result of MicroPriceCalculator::calculate on the depth snapshot
    micro_price,
    \* RiskManager.price_history and RiskManager.volatility_window; history:
    \* every price given to update_price, the mid-prices of the valid ticks
    \* of the market-maker run
    price_history, volatility_window, prices_given, mids_seen,
    \* MomentumIndicator.price_history, returns_history, lookback_period
    \* and momentum_threshold; history: every price given to update
    ind_price_history, returns_history, lookback_period, momentum_threshold,
    ind_given,
    \* MomentumRunner / PredictionRunner position fields, and the result of
    \* the last execute_strategy call ("Ok" or "Err")
    position_state, position_qty, entry_price, exec_result,
    \* total_orders of both runners and MomentumRunner.next_order_id;
    \* history: one of the order ids submitted to the simulator of the
    \* current file (0: none is watched), and whether it was submitted again
    total_orders, next_order_id, watched_id, id_reused,
    \* main: launch_monitor has returned (the window is closed and the
    \* command sender dropped)
    gui_closed

ctlvars == <<state, should_stop, should_skip, speed_multiplier>>
chanvars == <<command_q, resp_count, last_resp>>
runvars == <<file_idx, data_ended, update_count, iters_left, loop_delay_ms,
             pos, depth_valid>>
callhist == <<sent_count, n_applied, last_call>>
filehist == <<started, file_end_called, file_err, ticks>>
obshist == <<seen_running, stop_seen>>
stophist == <<stop_sent_in, stop_applied_in, stop_direct>>
stratvars == <<strategy, tick_errs, position, st_mid_price>>
trackervars == <<active_orders, filled_count, total_buy_volume,
                 total_sell_volume, last_op>>
pricevars == <<gamma, mid_price, inventory, volatility, reservation_price>>
bookvars == <<bid_qty, ask_qty, depth_levels, imbalance>>
predvars == <<pending_predictions, current_time, pred_file, pred_pushed,
              pred_removed, pred_skips>>
mmvars == <<orders, initial_orders_placed, mm_inventory, mm_realized_pnl,
            eval_count, last_submitted, last_rejected, fill_count,
            net_filled>>
quotevars == <<quote_in, quote_out>>
microvars == <<micro_price>>
riskvars == <<price_history, volatility_window, prices_given, mids_seen>>
indvars == <<ind_price_history, returns_history, lookback_period,
             momentum_threshold, ind_given>>
posvars == <<position_state, position_qty, entry_price, exec_result>>
idvars == <<total_orders, next_order_id, watched_id, id_reused>>
guivars == <<gui_closed>>
\* the components modelled on their own
calcvars ==
    <<quotevars, microvars, riskvars, indvars, posvars, idvars, guivars>>
complib == <<trackervars, pricevars, bookvars, predvars, mmvars>>
libvars == <<complib, calcvars>>
\* the controller, the channels and the runner
runnervars == <<ctlvars, chanvars, hc, pc, runvars, stop_pc, callhist,
                filehist, completed_calls, last_snap, obshist, stophist,
                stratvars>>
appvars == <<runnervars, calcvars>>

vars == <<state, should_stop, should_skip, speed_multiplier, command_q,
          resp_count, last_resp, hc, pc, file_idx, data_ended, update_count,
          iters_left, loop_delay_ms,
          pos, depth_valid, stop_pc, sent_count, n_applied, last_call, started,
          file_end_called, file_err, ticks, completed_calls, last_snap,
          seen_running, stop_seen, stop_sent_in, stop_applied_in,
          stop_direct, stratvars, libvars>>

Ctl == [state |-> state, should_stop |-> should_stop,
        should_skip |-> should_skip, speed |-> speed_multiplier]

\* StrategyController::new
NewCtl == [state |-> "Paused", should_stop |-> FALSE, should_skip |-> FALSE,
           speed |-> SPEED_DEFAULT]

NoCall == [cmd |-> NoCmd, id |-> 0, pre |-> NewCtl, at |-> "none"]
NoSnap == [file |-> 0, ts |-> 0, n |-> 0]

\* positions of the strategy thread inside the per-file loop of one file
InFilePcs == {"loop_top", "pause_chk", "pause_recv", "pause_stop_chk",
              "poll_gate", "poll_recv", "poll_stop_chk", "batch",
              "telemetry"}
\* positions inside the file loop of run_with_controller (lines 47-76)
FileLoopPcs == InFilePcs \cup {"wait_chk", "wait_recv", "start_chk"}
\* positions from which process_commands is called
RecvPcs == {"wait_recv", "pause_recv", "poll_recv", "keep1", "keep2"}

(* --------------------------- pure functions ---------------------------- *)
\* mutant: the lower bound is not applied
clamp_NoLower(x, min, max) == IF x > max THEN max ELSE x

\* f64::clamp
clamp(x, min, max) == IF x < min THEN min ELSE IF x > max THEN max ELSE x

\* mutant: Pause on a paused controller resumes it
StateAfter_PauseToggles(c, s) ==
    CASE c.k = "Start" -> "Running"
      [] c.k = "Pause" -> IF s = "Paused" THEN "Running" ELSE "Paused"
      [] c.k = "Stop" -> "Stopped"
      [] c.k = "Reset" -> "Paused"
      [] OTHER -> s

\* mutant: Skip is done by pausing
StateAfter_SkipPauses(c, s) ==
    CASE c.k = "Start" -> "Running"
      [] c.k = "Pause" -> "Paused"
      [] c.k = "Stop" -> "Stopped"
      [] c.k = "Reset" -> "Paused"
      [] c.k = "Skip" -> "Paused"
      [] OTHER -> s

\* the value handle_command stores in `state`
StateAfter(c, s) ==
    CASE c.k = "Start" -> "Running"
      [] c.k = "Pause" -> "Paused"
      [] c.k = "Stop" -> "Stopped"
      [] c.k = "Reset" -> "Paused"
      [] OTHER -> s

\* mutant: Reset leaves should_stop as it is
StopAfter_ResetKeeps(c, b) ==
    CASE c.k = "Start" -> FALSE
      [] c.k = "Stop" -> TRUE
      [] OTHER -> b

\* the value handle_command stores in `should_stop`
StopAfter(c, b) ==
    CASE c.k = "Start" -> FALSE
      [] c.k = "Stop" -> TRUE
      [] c.k = "Reset" -> FALSE
      [] OTHER -> b

\* mutant: Start clears a pending skip request
SkipAfter_StartClears(c, b) ==
    CASE c.k = "Skip" -> TRUE
      [] c.k = "Reset" -> FALSE
      [] c.k = "Start" -> FALSE
      [] OTHER -> b

\* the value handle_command stores in `should_skip`
SkipAfter(c, b) ==
    CASE c.k = "Skip" -> TRUE
      [] c.k = "Reset" -> FALSE
      [] OTHER -> b

\* the value handle_command stores in `speed_multiplier`
SpeedAfter(c, v) ==
    CASE c.k = "SetSpeed" -> clamp(c.x, SPEED_MIN, SPEED_MAX)
      [] c.k = "Reset" -> SPEED_DEFAULT
      [] OTHER -> v

\* the response handle_command sends
ResponseTo(c) ==
    CASE c.k = "Start" -> Resp("StateChanged", "Running", 0)
      [] c.k = "Pause" -> Resp("StateChanged", "Paused", 0)
      [] c.k = "Stop" -> Resp("StateChanged", "Stopped", 0)
      [] c.k = "SetSpeed" ->
            Resp("SpeedChanged", "", clamp(c.x, SPEED_MIN, SPEED_MAX))
      [] c.k = "ChangeFiles" -> Resp("FilesChanged", "", c.x)
      [] c.k = "Skip" -> Resp("Skipped", "", 0)
      [] c.k = "Reset" -> Resp("StateChanged", "Paused", 0)

\* the controller fields as handle_command leaves them
CtlAfter(c, ctl) ==
    [state |-> StateAfter(c, ctl.state),
     should_stop |-> StopAfter(c, ctl.should_stop),
     should_skip |-> SkipAfter(c, ctl.should_skip),
     speed |-> SpeedAfter(c, ctl.speed)]

\* commands for which handle_command stores `state` and then `should_stop`
TwoStores(c) == c.k \in {"Start", "Stop", "Reset"}

\* mutant: recv takes the newest message
RecvCommand_Newest(q) == q[Len(q)]

\* crossbeam unbounded channel: recv takes the oldest message
RecvCommand(q) == Head(q)

\* what recv leaves in the channel
RecvRest(q) == Tail(q)

\* mutant: the batch is speed / 10 rounded down
IterationsPerLoop_Floor(speed) ==
    IF speed >= 100000 THEN 100
    ELSE IF speed >= 10000 THEN speed \div 10000
    ELSE 1

\* calculate_speed_params: the batch size (ticks per loop)
IterationsPerLoop(speed) ==
    IF speed >= 100000 THEN 100
    ELSE IF speed >= 10000 THEN (speed + 9999) \div 10000
    ELSE 1

\* mutant: below speed 10 the delay grows with the speed
LoopDelayMs_Proportional(speed) ==
    IF speed >= 100000 THEN 0
    ELSE IF speed >= 10000 THEN 1
    ELSE speed \div 1000

\* calculate_speed_params: the delay in ms
LoopDelayMs(speed) ==
    IF speed >= 100000 THEN 0
    ELSE IF speed >= 10000 THEN 1
    ELSE 10000 \div speed

\* mutant: the counter starts again once the strategy has run
NextUpdateCount_Restarts(uc) == IF uc >= 1 THEN 0 ELSE uc + 1

\* state.update_count += 1
NextUpdateCount(uc) == uc + 1

\* sim_time_secs = update_count * (ELAPSE_DURATION_NS / 1e9), in
\* nanoseconds
SimTime(uc) == uc * ELAPSE_DURATION_NS

\* mutant: the next file is started without looking at should_stop
StartAllowed_Always(stop_flag) == TRUE

\* `if controller.should_stop() { break }` before a file is started
StartAllowed(stop_flag) == ~stop_flag

\* mutant: the poll does not look at should_stop
BreakOnStop_Never(stop_flag) == FALSE

\* `if controller.should_stop()` after a poll inside the per-file loop
BreakOnStop(stop_flag) == stop_flag

\* PositionState of a strategy
PositionStates == {"Flat", "Long", "Short"}

\* mutant: the counter of a new file's state starts at one
NewStrategyState_Counted ==
    [update_count |-> 1, position |-> "Flat", mid_price |-> 0]

\* StrategyState::new(): the default, every field zero (position,
\* mid_price and update_count are the fields kept here)
NewStrategyState ==
    [update_count |-> 0, position |-> "Flat", mid_price |-> 0]

\* Strategy::update_interval of the strategy given to the runner: the
\* default, or the value a strategy that overrides it returns
UpdateIntervalOf(strat) ==
    IF strat = "sparse" THEN SparseInterval ELSE update_interval

\* mutant: on_tick is called on every valid update
TickDue_Always(uc, n) == TRUE

\* `if state.update_count % update_interval == 0`
TickDue(uc, n) == uc % n = 0

\* ctx.mid_price(): the mid price of the book after p quanta of the file
MidPriceAt(p) == 100 + p

\* what one on_tick call of the strategy can do: return Ok or Err, and leave
\* a position
OnTickOutcomes(strat, p) ==
    CASE strat = "quiet" -> {[ok |-> TRUE, position |-> p]}
      [] strat = "failing" ->
            {[ok |-> TRUE, position |-> p], [ok |-> FALSE, position |-> p]}
      [] strat = "trading" ->
            {[ok |-> TRUE, position |-> q] : q \in PositionStates}
      [] strat = "sparse" ->
            {[ok |-> TRUE, position |-> q] : q \in {"Flat", "Long"}}

\* mutant: a failed on_tick ends the data of the file
AfterTickErr_Ends(ended) == TRUE

\* `if let Err(e) = on_tick(..) { eprintln!(..) }`: data_ended after it
AfterTickErr(ended) == ended

\* no OrderInfo
NoOrder == [order_id |-> 0, side |-> "none", price |-> 0, qty |-> 0,
            layer |-> 0]

\* no OrderTracker operation on an id yet
NoOp == [op |-> "none", order |-> NoOrder, ret |-> "none"]

\* no imbalance computed yet
NoRatio == [num |-> 0, den |-> 0]

(* ------------------------------- Init ---------------------------------- *)
\* the controller as StrategyController::new leaves it and the runner
\* before its first step, at position p with strategy strat
RunnerFields(p, strat) ==
    /\ state = NewCtl.state
    /\ should_stop = NewCtl.should_stop
    /\ should_skip = NewCtl.should_skip
    /\ speed_multiplier = NewCtl.speed
    /\ command_q = <<>>
    /\ resp_count = 0
    /\ last_resp = Resp("None", "", 0)
    /\ hc = NoCall
    /\ pc = p
    /\ file_idx = 1
    /\ data_ended = FALSE
    /\ update_count = NewStrategyState.update_count
    /\ iters_left = 0
    /\ loop_delay_ms = 0
    /\ pos = 0
    /\ depth_valid = FALSE
    /\ stop_pc = "idle"
    /\ sent_count = 0
    /\ n_applied = 0
    /\ last_call = [cmd |-> NoCmd, id |-> 0, pre |-> NewCtl, post |-> NewCtl,
                    ret |-> FALSE]
    /\ started = {}
    /\ file_end_called = {}
    /\ file_err = {}
    /\ ticks = 0
    /\ completed_calls = 0
    /\ last_snap = NoSnap
    /\ seen_running = FALSE
    /\ stop_seen = FALSE
    /\ stop_sent_in = 0
    /\ stop_applied_in = 0
    /\ stop_direct = FALSE
    /\ strategy = strat
    /\ tick_errs = 0
    /\ position = NewStrategyState.position
    /\ st_mid_price = NewStrategyState.mid_price

\* no OrderTracker in use
TrackerIdle ==
    /\ active_orders = {}
    /\ filled_count = 0
    /\ total_buy_volume = 0
    /\ total_sell_volume = 0
    /\ last_op = <<>>

\* no reservation price computed
PriceIdle ==
    /\ gamma = 0
    /\ mid_price = 0
    /\ inventory = 0
    /\ volatility = 0
    /\ reservation_price = 0

\* no depth snapshot taken
BookIdle ==
    /\ bid_qty = <<>>
    /\ ask_qty = <<>>
    /\ depth_levels = 0
    /\ imbalance = NoRatio

\* no PredictionRunner in use
PredIdle ==
    /\ pending_predictions = <<>>
    /\ current_time = 0
    /\ pred_file = 0
    /\ pred_pushed = 0
    /\ pred_removed = <<>>
    /\ pred_skips = 0

\* no MarketMakerRunner in use
MMIdle ==
    /\ orders = <<>>
    /\ initial_orders_placed = FALSE
    /\ mm_inventory = 0
    /\ mm_realized_pnl = 0
    /\ eval_count = 0
    /\ last_submitted = {}
    /\ last_rejected = {}
    /\ fill_count = 0
    /\ net_filled = 0

\* no quote computed
QuoteIdle ==
    /\ quote_in = <<>>
    /\ quote_out = <<>>

\* no micro-price computed
MicroIdle == micro_price = NoRatio

\* no RiskManager in use
RiskIdle ==
    /\ price_history = <<>>
    /\ volatility_window = 0
    /\ prices_given = <<>>
    /\ mids_seen = {}

\* RiskManager::new with window w
RiskManagerNew(w) ==
    /\ price_history = <<>>
    /\ volatility_window = w
    /\ prices_given = <<>>

\* no MomentumIndicator in use
IndIdle ==
    /\ ind_price_history = <<>>
    /\ returns_history = <<>>
    /\ lookback_period = 0
    /\ momentum_threshold = 0
    /\ ind_given = <<>>

\* no position kept
PosIdle ==
    /\ position_state = "Flat"
    /\ position_qty = 0
    /\ entry_price = 0
    /\ exec_result = "Ok"

\* no order id handed out
IdIdle ==
    /\ total_orders = 0
    /\ next_order_id = 0
    /\ watched_id = 0
    /\ id_reused = FALSE

\* the window of the monitor is open
GuiIdle == gui_closed = FALSE

CalcIdle ==
    /\ QuoteIdle /\ MicroIdle /\ RiskIdle /\ IndIdle /\ PosIdle /\ IdIdle
    /\ GuiIdle

\* the market-maker and prediction components, not in use
LibIdle ==
    TrackerIdle /\ PriceIdle /\ BookIdle /\ PredIdle /\ MMIdle /\ CalcIdle

\* spawn_strategy_thread: a fresh controller, the runner started
Init == RunnerFields("wait_chk", "quiet") /\ LibIdle

(* ------------------------------ UI thread ------------------------------ *)
\* the UI sends a command (control_panel.rs: command_tx.send)
Send(c) ==
    /\ sent_count < MaxCmds
    /\ command_q' = Append(command_q, [cmd |-> c, id |-> sent_count + 1])
    /\ sent_count' = sent_count + 1
    /\ stop_sent_in' =
          IF /\ c.k = "Stop" /\ stop_sent_in = 0
             /\ state = "Running" /\ pc \in InFilePcs /\ ~data_ended
             /\ command_q = <<>> /\ hc = NoCall
          THEN file_idx ELSE stop_sent_in
    /\ UNCHANGED <<ctlvars, resp_count, last_resp, hc, pc, runvars, stop_pc,
                   n_applied, last_call, filehist, completed_calls, last_snap, obshist,
                   stop_applied_in, stop_direct>>
    /\ UNCHANGED <<stratvars, libvars>>

UISend == \E c \in RunCommands : Send(c)

(* --------------------- controller: process_commands -------------------- *)
\* handle_command for a command with a single store, and the send
ApplyWhole(m) ==
    /\ state' = StateAfter(m.cmd, state)
    /\ should_stop' = StopAfter(m.cmd, should_stop)
    /\ should_skip' = SkipAfter(m.cmd, should_skip)
    /\ speed_multiplier' = SpeedAfter(m.cmd, speed_multiplier)
    /\ resp_count' = resp_count + 1
    /\ last_resp' = ResponseTo(m.cmd)
    /\ n_applied' = n_applied + 1
    /\ last_call' = [cmd |-> m.cmd, id |-> m.id, pre |-> Ctl,
                     post |-> CtlAfter(m.cmd, Ctl), ret |-> TRUE]
    /\ UNCHANGED <<hc, stop_applied_in>>

\* handle_command of Start, Stop, Reset up to its first store (`state`)
FirstStore(m, at) ==
    /\ state' = StateAfter(m.cmd, state)
    /\ hc' = [cmd |-> m.cmd, id |-> m.id, pre |-> Ctl, at |-> at]
    /\ UNCHANGED <<should_stop, should_skip, speed_multiplier, resp_count,
                   last_resp, n_applied, last_call, stop_applied_in>>

\* process_commands called at position `at`: select! takes the oldest
\* command if there is one, else times out and returns false
ProcessCommands(at, on_true, on_false) ==
    /\ pc = at
    /\ hc = NoCall
    /\ \/ /\ command_q # <<>>
          /\ command_q' = RecvRest(command_q)
          /\ LET m == RecvCommand(command_q) IN
                IF TwoStores(m.cmd) THEN FirstStore(m, at)
                ELSE ApplyWhole(m)
          /\ pc' = on_true
       \/ /\ command_q = <<>>
          /\ pc' = on_false
          /\ last_call' = [cmd |-> NoCmd, id |-> 0, pre |-> Ctl,
                           post |-> Ctl, ret |-> FALSE]
          /\ UNCHANGED <<ctlvars, chanvars, hc, n_applied, stop_applied_in>>
    /\ UNCHANGED <<runvars, stop_pc, sent_count, filehist, completed_calls,
                   last_snap, obshist, stop_sent_in, stop_direct>>
    /\ UNCHANGED <<stratvars, libvars>>

\* handle_command of Start, Stop, Reset after its first store: the stores
\* of should_stop, should_skip, speed_multiplier, and the response
HandleCommandFinish ==
    /\ hc # NoCall
    /\ should_stop' = StopAfter(hc.cmd, should_stop)
    /\ should_skip' = SkipAfter(hc.cmd, should_skip)
    /\ speed_multiplier' = SpeedAfter(hc.cmd, speed_multiplier)
    /\ resp_count' = resp_count + 1
    /\ last_resp' = ResponseTo(hc.cmd)
    /\ n_applied' = n_applied + 1
    /\ last_call' = [cmd |-> hc.cmd, id |-> hc.id, pre |-> hc.pre,
                     post |-> [CtlAfter(hc.cmd, Ctl) EXCEPT !.state = state],
                     ret |-> TRUE]
    /\ stop_applied_in' =
          IF hc.cmd.k = "Stop" /\ hc.at \in {"pause_recv", "poll_recv"}
             /\ stop_applied_in = 0
          THEN file_idx ELSE stop_applied_in
    /\ hc' = NoCall
    /\ UNCHANGED <<state, command_q, pc, runvars, stop_pc, sent_count,
                   filehist, completed_calls, last_snap, obshist,
                   stop_sent_in, stop_direct>>
    /\ UNCHANGED <<stratvars, libvars>>

(* -------------------- strategy thread: run_with_controller ------------- *)
\* controller.notify_new_file(), called for every file but the first
\* ("Notify GUI to clear chart data for new file"): a message to the UI on
\* the response channel; no controller field is written
notify_new_file ==
    /\ resp_count' = resp_count + 1
    /\ last_resp' = Resp("NewFile", "", 0)

\* the for loop goes on to the next file, or ends
NextFile ==
    /\ file_idx' = file_idx + 1
    /\ pc' = IF file_idx + 1 > NumFiles THEN "after_files" ELSE "wait_chk"

\* `while !controller.is_running() && !controller.should_stop()`
WaitChk ==
    /\ pc = "wait_chk"
    /\ hc = NoCall
    /\ seen_running' = (state = "Running")
    /\ IF state # "Running" /\ ~should_stop
       THEN pc' = "wait_recv" /\ UNCHANGED stop_seen
       ELSE /\ pc' = "start_chk"
            /\ stop_seen' = (stop_seen \/ (state # "Running" /\ should_stop))
    /\ UNCHANGED <<ctlvars, chanvars, hc, runvars, stop_pc, callhist,
                   filehist, completed_calls, last_snap, stophist>>
    /\ UNCHANGED <<stratvars, libvars>>

\* controller.process_commands(100 ms) in the wait loop
WaitRecv == ProcessCommands("wait_recv", "wait_chk", "wait_chk")

\* `if controller.should_stop() { break }`, else notify_new_file,
\* create_backtest (which may fail), on_file_start, StrategyState::new
StartChk ==
    /\ pc = "start_chk"
    /\ hc = NoCall
    /\ IF ~StartAllowed(should_stop)
       THEN /\ stop_seen' = TRUE
            /\ pc' = "after_files"
            /\ UNCHANGED <<resp_count, last_resp, runvars, started, ticks,
                           tick_errs, position, st_mid_price>>
       ELSE /\ UNCHANGED stop_seen
            /\ IF file_idx > 1 THEN notify_new_file
               ELSE UNCHANGED <<resp_count, last_resp>>
            /\ \/ /\ pc' = "failed"
                  /\ UNCHANGED <<runvars, started, ticks, tick_errs,
                                 position, st_mid_price>>
               \/ /\ pc' = "loop_top"
                  /\ started' = started \cup {file_idx}
                  /\ data_ended' = FALSE
                  /\ update_count' = NewStrategyState.update_count
                  /\ pos' = 0
                  /\ depth_valid' = FALSE
                  /\ ticks' = 0
                  /\ tick_errs' = 0
                  /\ position' = NewStrategyState.position
                  /\ st_mid_price' = NewStrategyState.mid_price
                  /\ UNCHANGED <<file_idx, iters_left, loop_delay_ms>>
    /\ UNCHANGED <<ctlvars, command_q, hc, stop_pc, callhist,
                   file_end_called, file_err, completed_calls, last_snap,
                   seen_running, stophist>>
    /\ UNCHANGED <<strategy, libvars>>

(* ---------------------- strategy thread: run_single_file --------------- *)
\* `if data_ended { on_file_end; break }`
LoopTop ==
    /\ pc = "loop_top"
    /\ hc = NoCall
    /\ IF data_ended
       THEN /\ file_end_called' = file_end_called \cup {file_idx}
            /\ NextFile
       ELSE /\ pc' = "pause_chk"
            /\ UNCHANGED <<file_idx, file_end_called>>
    /\ UNCHANGED <<ctlvars, chanvars, hc, data_ended, update_count,
                   iters_left, loop_delay_ms, pos, depth_valid, stop_pc,
                   callhist, started, file_err, ticks, completed_calls,
                   last_snap, obshist, stophist>>
    /\ UNCHANGED <<stratvars, libvars>>

\* `while controller.state() == Paused`
PauseChk ==
    /\ pc = "pause_chk"
    /\ hc = NoCall
    /\ pc' = IF state = "Paused" THEN "pause_recv" ELSE "poll_gate"
    /\ UNCHANGED <<ctlvars, chanvars, hc, runvars, stop_pc, callhist,
                   filehist, completed_calls, last_snap, obshist, stophist>>
    /\ UNCHANGED <<stratvars, libvars>>

\* controller.process_commands(50 ms) in the pause loop
PauseRecv == ProcessCommands("pause_recv", "pause_stop_chk", "pause_stop_chk")

\* `if controller.should_stop() { return Ok(()) }` in the pause loop
PauseStopChk ==
    /\ pc = "pause_stop_chk"
    /\ hc = NoCall
    /\ IF should_stop
       THEN stop_seen' = TRUE /\ NextFile
       ELSE pc' = "pause_chk" /\ UNCHANGED <<stop_seen, file_idx>>
    /\ UNCHANGED <<ctlvars, chanvars, hc, data_ended, update_count,
                   iters_left, loop_delay_ms, pos, depth_valid, stop_pc,
                   callhist, filehist, completed_calls, last_snap,
                   seen_running, stophist>>
    /\ UNCHANGED <<stratvars, libvars>>

\* speed_multiplier() and calculate_speed_params before the tick batch
BatchInit ==
    /\ iters_left' = IterationsPerLoop(speed_multiplier)
    /\ loop_delay_ms' = LoopDelayMs(speed_multiplier)
    /\ pc' = "batch"

\* `if last_command_check.elapsed() >= command_check_interval`
PollGate ==
    /\ pc = "poll_gate"
    /\ hc = NoCall
    /\ \/ pc' = "poll_recv" /\ UNCHANGED <<iters_left, loop_delay_ms>>
       \/ BatchInit
    /\ UNCHANGED <<ctlvars, chanvars, hc, file_idx, data_ended, update_count,
                   pos, depth_valid, stop_pc, callhist, filehist,
                   completed_calls, last_snap, obshist, stophist>>
    /\ UNCHANGED <<stratvars, libvars>>

\* controller.process_commands(COMMAND_POLL_TIMEOUT_MICROS)
PollRecv == ProcessCommands("poll_recv", "poll_stop_chk", "poll_stop_chk")

\* `if controller.should_stop() { break }` after the poll
PollStopChk ==
    /\ pc = "poll_stop_chk"
    /\ hc = NoCall
    /\ IF BreakOnStop(should_stop)
       THEN /\ stop_seen' = TRUE
            /\ NextFile
            /\ UNCHANGED <<iters_left, loop_delay_ms>>
       ELSE BatchInit /\ UNCHANGED <<stop_seen, file_idx>>
    /\ UNCHANGED <<ctlvars, chanvars, hc, data_ended, update_count, pos,
                   depth_valid, stop_pc, callhist, filehist, completed_calls,
                   last_snap, seen_running, stophist>>
    /\ UNCHANGED <<stratvars, libvars>>

\* one iteration of `for _ in 0..iterations_per_loop`: hbt.elapse
Elapse ==
    /\ pc = "batch"
    /\ hc = NoCall
    /\ IF iters_left = 0
       THEN /\ pc' = "telemetry"
            /\ UNCHANGED <<data_ended, update_count, iters_left, pos,
                           depth_valid, file_err, ticks, tick_errs, position,
                           st_mid_price>>
       ELSE IF pos >= FileLen
       THEN \* Ok(ElapseResult::EndOfData)
            /\ data_ended' = TRUE
            /\ pc' = "telemetry"
            /\ UNCHANGED <<update_count, iters_left, pos, depth_valid,
                           file_err, ticks, tick_errs, position,
                           st_mid_price>>
       ELSE \/ \* Ok(_) with a valid book
               /\ pos' = pos + 1
               /\ depth_valid' = TRUE
               /\ update_count' = NextUpdateCount(update_count)
               /\ iters_left' = iters_left - 1
               /\ IF TickDue(NextUpdateCount(update_count),
                             UpdateIntervalOf(strategy))
                  THEN \E o \in OnTickOutcomes(strategy, position) :
                          /\ st_mid_price' = MidPriceAt(pos + 1)
                          /\ ticks' = ticks + 1
                          /\ position' = o.position
                          /\ tick_errs' = IF o.ok THEN tick_errs
                                          ELSE tick_errs + 1
                          /\ data_ended' = IF o.ok THEN data_ended
                                           ELSE AfterTickErr(data_ended)
                          /\ pc' = IF ~o.ok /\ AfterTickErr(data_ended)
                                   THEN "telemetry" ELSE pc
                  ELSE UNCHANGED <<pc, data_ended, ticks, tick_errs,
                                   position, st_mid_price>>
               /\ UNCHANGED file_err
            \/ \* Ok(_) with an invalid book: continue
               /\ pos' = pos + 1
               /\ depth_valid' = FALSE
               /\ iters_left' = iters_left - 1
               /\ UNCHANGED <<pc, data_ended, update_count, file_err, ticks,
                              tick_errs, position, st_mid_price>>
            \/ \* Err(_)
               /\ data_ended' = TRUE
               /\ file_err' = file_err \cup {file_idx}
               /\ pc' = "telemetry"
               /\ UNCHANGED <<update_count, iters_left, pos, depth_valid,
                              ticks, tick_errs, position, st_mid_price>>
    /\ UNCHANGED <<ctlvars, chanvars, hc, file_idx, loop_delay_ms, stop_pc,
                   callhist, started, file_end_called, completed_calls,
                   last_snap, obshist, stophist>>
    /\ UNCHANGED <<strategy, libvars>>

\* `if last_gui_update.elapsed() >= 33 ms` and the book is valid: build a
\* PerformanceData snapshot and try_send it; then sleep or yield
Telemetry ==
    /\ pc = "telemetry"
    /\ hc = NoCall
    /\ \/ /\ depth_valid
          /\ last_snap' = [file |-> file_idx, ts |-> SimTime(update_count),
                           n |-> IF last_snap.file = file_idx THEN 2 ELSE 1]
       \/ UNCHANGED last_snap
    /\ pc' = "loop_top"
    /\ UNCHANGED <<ctlvars, chanvars, hc, runvars, stop_pc, callhist,
                   filehist, completed_calls, obshist, stophist>>
    /\ UNCHANGED <<stratvars, libvars>>

(* ----------------- strategy thread: after the file loop ---------------- *)
\* StrategyController::mark_completed
mark_completed ==
    /\ state' = "Completed"
    /\ resp_count' = resp_count + 1
    /\ last_resp' = Resp("Completed", "", 0)
    /\ completed_calls' = completed_calls + 1

\* `if !controller.should_stop() { controller.mark_completed() }`
AfterFiles ==
    /\ pc = "after_files"
    /\ hc = NoCall
    /\ IF ~should_stop
       THEN /\ mark_completed
            /\ UNCHANGED stop_seen
       ELSE /\ stop_seen' = TRUE
            /\ UNCHANGED <<state, resp_count, last_resp, completed_calls>>
    /\ pc' = "keep1"
    /\ UNCHANGED <<should_stop, should_skip, speed_multiplier, command_q, hc,
                   runvars, stop_pc, callhist, filehist, last_snap,
                   seen_running, stophist>>
    /\ UNCHANGED <<stratvars, libvars>>

\* keep_alive_until_close: process_commands(200 ms)
Keep1 == ProcessCommands("keep1", "keep1", "keep2")

\* keep_alive_until_close: sleep(100 ms); process_commands(100 ms), break
\* if it returns false
Keep2 == ProcessCommands("keep2", "keep1", "done")

(* ------------------- another thread: controller.stop() ----------------- *)
\* self.state.store(Stopped)
StopStoreState ==
    /\ stop_pc = "idle"
    /\ state' = "Stopped"
    /\ stop_pc' = "mid"
    /\ UNCHANGED <<should_stop, should_skip, speed_multiplier, chanvars, hc,
                   pc, runvars, callhist, filehist, completed_calls,
                   last_snap, obshist, stophist>>
    /\ UNCHANGED <<stratvars, libvars>>

\* self.should_stop.store(true)
StopStoreFlag ==
    /\ stop_pc = "mid"
    /\ should_stop' = TRUE
    /\ stop_pc' = "done"
    /\ stop_direct' = (pc \in FileLoopPcs)
    /\ UNCHANGED <<state, should_skip, speed_multiplier, chanvars, hc, pc,
                   runvars, callhist, filehist, completed_calls, last_snap,
                   obshist, stop_sent_in, stop_applied_in>>
    /\ UNCHANGED <<stratvars, libvars>>

(* ------------- the controller alone, under any caller ------------------ *)
\* a caller of process_commands that does nothing else
CtlInit == RunnerFields("ctl", "quiet") /\ LibIdle

\* any StrategyCommand is sent on the command channel
CtlSend == \E c \in Commands : Send(c)

\* process_commands
CtlRecv == ProcessCommands("ctl", "ctl", "ctl")

\* mark_completed, called once
CtlMarkCompleted ==
    /\ pc = "ctl"
    /\ hc = NoCall
    /\ completed_calls = 0
    /\ mark_completed
    /\ UNCHANGED <<should_stop, should_skip, speed_multiplier, command_q, hc,
                   pc, runvars, stop_pc, callhist, filehist, last_snap,
                   obshist, stophist>>
    /\ UNCHANGED <<stratvars, libvars>>

CtlNext ==
    \/ CtlSend
    \/ CtlRecv
    \/ HandleCommandFinish
    \/ CtlMarkCompleted

\* the controller with every command of the channel's type
CtlSpec == CtlInit /\ [][CtlNext]_vars

(* --------------------------- specifications ---------------------------- *)
\* the commands that matter to stop() are sent
StopSend == \E c \in StopCommands : Send(c)

\* the steps of the strategy thread in run_with_controller
Runner ==
    \/ HandleCommandFinish
    \/ WaitChk
    \/ WaitRecv
    \/ StartChk
    \/ LoopTop
    \/ PauseChk
    \/ PauseRecv
    \/ PauseStopChk
    \/ PollGate
    \/ PollRecv
    \/ PollStopChk
    \/ Elapse
    \/ Telemetry
    \/ AfterFiles
    \/ Keep1
    \/ Keep2

Next ==
    \/ UISend
    \/ HandleCommandFinish
    \/ WaitChk
    \/ WaitRecv
    \/ StartChk
    \/ LoopTop
    \/ PauseChk
    \/ PauseRecv
    \/ PauseStopChk
    \/ PollGate
    \/ PollRecv
    \/ PollStopChk
    \/ Elapse
    \/ Telemetry
    \/ AfterFiles
    \/ Keep1
    \/ Keep2

\* the program as main.rs and the UI run it: nobody calls stop()
Spec == Init /\ [][Next]_vars

StopNext ==
    \/ StopSend
    \/ Runner
    \/ StopStoreState
    \/ StopStoreFlag

\* the controller with another thread calling its public stop() once
StopSpec == Init /\ [][StopNext]_vars

\* Start, Pause and Stop are sent
TickSend == \E c \in {Cmd(k, 0) : k \in {"Start", "Pause", "Stop"}} : Send(c)

\* the runner is given a strategy whose on_tick may fail
TickInit == RunnerFields("wait_chk", "failing") /\ LibIdle

TickNext ==
    \/ TickSend
    \/ Runner

\* run_with_controller with a Strategy whose on_tick may return Err
TickSpec == TickInit /\ [][TickNext]_vars

\* the runner is given a strategy whose on_tick trades
TradeInit == RunnerFields("wait_chk", "trading") /\ LibIdle

TradeNext ==
    \/ TickSend
    \/ Runner

\* run_with_controller with a Strategy that opens and closes positions
TradeSpec == TradeInit /\ [][TradeNext]_vars

\* the runner is given a strategy with the default update_interval or one
\* that overrides it
IntervalInit ==
    \E strat \in {"quiet", "sparse"} :
        RunnerFields("wait_chk", strat) /\ LibIdle

IntervalNext ==
    \/ TickSend
    \/ Runner

\* run_with_controller with either strategy
IntervalSpec == IntervalInit /\ [][IntervalNext]_vars

(* ---------------------------- MomentumRunner --------------------------- *)
\* what one execute_strategy call can do with position p: return early or
\* keep the position, open one from Flat, close one, or fail in the order
\* submission of open_*_position or close_position
execute_strategy(p) ==
    {[ok |-> TRUE, position |-> q] :
        q \in IF p = "Flat" THEN PositionStates ELSE {p, "Flat"}}
    \cup {[ok |-> FALSE, position |-> p]}

\* run_with_controller: `if controller.should_stop() { break }`, else
\* notify_new_file and the start of run_strategy_with_control:
\* create_backtest (which may fail), the position set to Flat
MomStartChk ==
    /\ pc = "start_chk"
    /\ hc = NoCall
    /\ IF should_stop
       THEN /\ stop_seen' = TRUE
            /\ pc' = "after_files"
            /\ UNCHANGED <<resp_count, last_resp, runvars, started, ticks,
                           tick_errs, position>>
       ELSE /\ UNCHANGED stop_seen
            /\ IF file_idx > 1 THEN notify_new_file
               ELSE UNCHANGED <<resp_count, last_resp>>
            /\ \/ /\ pc' = "failed"
                  /\ UNCHANGED <<runvars, started, ticks, tick_errs,
                                 position>>
               \/ /\ pc' = "loop_top"
                  /\ started' = started \cup {file_idx}
                  /\ data_ended' = FALSE
                  /\ update_count' = 0
                  /\ pos' = 0
                  /\ depth_valid' = FALSE
                  /\ ticks' = 0
                  /\ tick_errs' = 0
                  /\ position' = "Flat"
                  /\ UNCHANGED <<file_idx, iters_left, loop_delay_ms>>
    /\ UNCHANGED <<ctlvars, command_q, hc, stop_pc, callhist,
                   file_end_called, file_err, completed_calls, last_snap,
                   seen_running, stophist>>
    /\ UNCHANGED <<strategy, st_mid_price, libvars>>

\* the end of run_strategy_with_control: close_position if the position is
\* not Flat (its error is returned with `?`), print_final_stats, Ok(())
MomClose ==
    \/ /\ position # "Flat"
       /\ pc' = "failed"
       /\ UNCHANGED <<file_idx, position, file_end_called>>
    \/ /\ position' = "Flat"
       /\ file_end_called' = file_end_called \cup {file_idx}
       /\ NextFile

\* `if data_ended { .. return Ok(()) }`
MomLoopTop ==
    /\ pc = "loop_top"
    /\ hc = NoCall
    /\ IF data_ended
       THEN MomClose
       ELSE /\ pc' = "pause_chk"
            /\ UNCHANGED <<file_idx, position, file_end_called>>
    /\ UNCHANGED <<ctlvars, chanvars, hc, data_ended, update_count,
                   iters_left, loop_delay_ms, pos, depth_valid, stop_pc,
                   callhist, started, file_err, ticks, completed_calls,
                   last_snap, obshist, stophist>>
    /\ UNCHANGED <<strategy, tick_errs, st_mid_price, libvars>>

\* `if !controller.is_running()`
MomPauseChk ==
    /\ pc = "pause_chk"
    /\ hc = NoCall
    /\ pc' = IF state # "Running" THEN "pause_recv" ELSE "poll_gate"
    /\ UNCHANGED <<ctlvars, chanvars, hc, runvars, stop_pc, callhist,
                   filehist, completed_calls, last_snap, obshist, stophist>>
    /\ UNCHANGED <<stratvars, libvars>>

\* `if controller.should_stop() { break }`, else `continue`, after the
\* process_commands of a runner that is not running
MomPauseStopChk ==
    /\ pc = "pause_stop_chk"
    /\ hc = NoCall
    /\ IF should_stop
       THEN stop_seen' = TRUE /\ MomClose
       ELSE /\ pc' = "loop_top"
            /\ UNCHANGED <<stop_seen, file_idx, position, file_end_called>>
    /\ UNCHANGED <<ctlvars, chanvars, hc, data_ended, update_count,
                   iters_left, loop_delay_ms, pos, depth_valid, stop_pc,
                   callhist, started, file_err, ticks, completed_calls,
                   last_snap, seen_running, stophist>>
    /\ UNCHANGED <<strategy, tick_errs, st_mid_price, libvars>>

\* `if controller.should_stop() { break }` after the poll
MomPollStopChk ==
    /\ pc = "poll_stop_chk"
    /\ hc = NoCall
    /\ IF should_stop
       THEN /\ stop_seen' = TRUE
            /\ MomClose
            /\ UNCHANGED <<iters_left, loop_delay_ms>>
       ELSE /\ BatchInit
            /\ UNCHANGED <<stop_seen, file_idx, position, file_end_called>>
    /\ UNCHANGED <<ctlvars, chanvars, hc, data_ended, update_count, pos,
                   depth_valid, stop_pc, callhist, started, file_err, ticks,
                   completed_calls, last_snap, seen_running, stophist>>
    /\ UNCHANGED <<strategy, tick_errs, st_mid_price, libvars>>

\* one iteration of `for _ in 0..iterations_per_loop`: hbt.elapse, and
\* `self.execute_strategy(..)?` on every UPDATE_INTERVAL-th valid update
MomElapse ==
    /\ pc = "batch"
    /\ hc = NoCall
    /\ IF iters_left = 0
       THEN /\ pc' = "telemetry"
            /\ UNCHANGED <<data_ended, update_count, iters_left, pos,
                           depth_valid, file_err, ticks, tick_errs, position>>
       ELSE IF pos >= MomFileLen
       THEN \* Ok(ElapseResult::EndOfData)
            /\ data_ended' = TRUE
            /\ pc' = "telemetry"
            /\ UNCHANGED <<update_count, iters_left, pos, depth_valid,
                           file_err, ticks, tick_errs, position>>
       ELSE \/ \* Ok(_) with a valid book
               /\ pos' = pos + 1
               /\ depth_valid' = TRUE
               /\ update_count' = update_count + 1
               /\ iters_left' = iters_left - 1
               /\ IF (update_count + 1) % UPDATE_INTERVAL = 0
                  THEN \E o \in execute_strategy(position) :
                          /\ ticks' = ticks + 1
                          /\ position' = o.position
                          /\ tick_errs' = IF o.ok THEN tick_errs
                                          ELSE tick_errs + 1
                          /\ pc' = IF o.ok THEN pc ELSE "failed"
                  ELSE UNCHANGED <<pc, ticks, tick_errs, position>>
               /\ UNCHANGED <<data_ended, file_err>>
            \/ \* Ok(_) with an invalid book: continue
               /\ pos' = pos + 1
               /\ depth_valid' = FALSE
               /\ iters_left' = iters_left - 1
               /\ UNCHANGED <<pc, data_ended, update_count, file_err, ticks,
                              tick_errs, position>>
            \/ \* Err(_)
               /\ data_ended' = TRUE
               /\ file_err' = file_err \cup {file_idx}
               /\ pc' = "telemetry"
               /\ UNCHANGED <<update_count, iters_left, pos, depth_valid,
                              ticks, tick_errs, position>>
    /\ UNCHANGED <<ctlvars, chanvars, hc, file_idx, loop_delay_ms, stop_pc,
                   callhist, started, file_end_called, completed_calls,
                   last_snap, obshist, stophist>>
    /\ UNCHANGED <<strategy, st_mid_price, libvars>>

\* MomentumRunner on its thread
MomInit == RunnerFields("wait_chk", "momentum") /\ LibIdle

MomNext ==
    \/ TickSend
    \/ HandleCommandFinish
    \/ WaitChk
    \/ WaitRecv
    \/ MomStartChk
    \/ MomLoopTop
    \/ MomPauseChk
    \/ PauseRecv
    \/ MomPauseStopChk
    \/ PollGate
    \/ PollRecv
    \/ MomPollStopChk
    \/ MomElapse
    \/ Telemetry
    \/ AfterFiles
    \/ Keep1
    \/ Keep2

\* MomentumRunner::run_with_controller
MomentumSpec == MomInit /\ [][MomNext]_vars

(* ----------------------------- OrderTracker ---------------------------- *)
\* ids of the (layer, side) slots, and sample arguments
OrderIds == 0..MaxOrderId
OrderSides == {"Buy", "Sell"}
OrderPrices == {100, 101}
OrderQtys == {1, 2}

\* the layer of a slot: its ids are layer * 2 and layer * 2 + 1
LayerOf(order_id) == order_id \div 2

OrderInfo(id, side, price, qty, layer) ==
    [order_id |-> id, side |-> side, price |-> price, qty |-> qty,
     layer |-> layer]

\* mutant: insert keeps the record already stored under the key
HashInsert_Keeps(m, r) == m \cup {r}

\* HashMap::insert: the value stored under the key is replaced
HashInsert(m, r) == {o \in m : o.order_id # r.order_id} \cup {r}

\* HashMap::remove: the map without the key
HashRemove(m, id) == {o \in m : o.order_id # id}

\* HashMap::contains_key
has_order(m, id) == \E o \in m : o.order_id = id

\* get_stats().3: active_orders.len()
active_count == Cardinality(active_orders)

\* mutant: a fill is added to the volume of both sides
AddVolume_BothSides(vol, side, order) == vol + order.qty

\* `match order.side { Buy => total_buy_volume += qty, Sell => .. }`
AddVolume(vol, side, order) ==
    IF order.side = side THEN vol + order.qty ELSE vol

\* OrderTracker::new
TrackerInit ==
    /\ RunnerFields("idle", "quiet")
    /\ active_orders = {}
    /\ filled_count = 0
    /\ total_buy_volume = 0
    /\ total_sell_volume = 0
    /\ last_op = [i \in OrderIds |-> NoOp]
    /\ PriceIdle
    /\ BookIdle
    /\ PredIdle
    /\ MMIdle
    /\ CalcIdle

register_order(order_id, side, price, qty, layer) ==
    LET r == OrderInfo(order_id, side, price, qty, layer) IN
    /\ active_orders' = HashInsert(active_orders, r)
    /\ last_op' = [last_op EXCEPT
                     ![order_id] = [op |-> "register", order |-> r,
                                    ret |-> "none"]]
    /\ UNCHANGED <<filled_count, total_buy_volume, total_sell_volume>>
    /\ UNCHANGED <<appvars, mmvars, pricevars, bookvars, predvars>>

mark_filled(order_id) ==
    /\ filled_count < MaxFills
    /\ IF has_order(active_orders, order_id)
       THEN LET order == CHOOSE o \in active_orders : o.order_id = order_id IN
            /\ active_orders' = HashRemove(active_orders, order_id)
            /\ filled_count' = filled_count + 1
            /\ total_buy_volume' = AddVolume(total_buy_volume, "Buy", order)
            /\ total_sell_volume' = AddVolume(total_sell_volume, "Sell", order)
            /\ last_op' = [last_op EXCEPT
                             ![order_id] = [op |-> "mark_filled",
                                            order |-> order, ret |-> "Some"]]
       ELSE /\ last_op' = [last_op EXCEPT
                             ![order_id] = [op |-> "mark_filled",
                                            order |-> NoOrder, ret |-> "None"]]
            /\ UNCHANGED <<active_orders, filled_count, total_buy_volume,
                           total_sell_volume>>
    /\ UNCHANGED <<appvars, mmvars, pricevars, bookvars, predvars>>

RegisterOrder ==
    \E id \in OrderIds, side \in OrderSides, price \in OrderPrices,
       qty \in OrderQtys :
        register_order(id, side, price, qty, LayerOf(id))

MarkFilled == \E id \in OrderIds : mark_filled(id)

TrackerNext ==
    \/ RegisterOrder
    \/ MarkFilled

\* an OrderTracker under any sequence of register_order and mark_filled
\* (clear_all is never called)
TrackerSpec == TrackerInit /\ [][TrackerNext]_vars

(* -------------------------- MarketMakerRunner -------------------------- *)
(* One file of run_strategy.  A scheduled evaluation is one call of          *)
(* place_initial_orders or check_and_refill_orders; between evaluations the  *)
(* exchange fills or expires resting orders.  submit_buy_order and           *)
(* submit_sell_order belong to the simulator: each call is accepted (the     *)
(* order rests under its id) or rejected (hbt.orders(0) is left as it is).   *)
(* The run is followed up to its MaxEvals-th evaluation.                     *)
\* the order ids of the slots: layer * 2 and layer * 2 + 1
SlotIds == 0..(2 * order_layers - 1)

\* buy_order_id = layer * 2, sell_order_id = layer * 2 + 1
SideOf(order_id) == IF order_id % 2 = 0 THEN "Buy" ELSE "Sell"

\* no order under an id in hbt.orders(0)
NoRestingOrder == [status |-> "None", qty |-> 0, price_tick |-> 0]

\* RiskManager::adjust_order_size: base_size * (1 - inventory_ratio * 0.5)
\* with inventory_ratio = min(|inventory| / max_inventory, 1), to the
\* nearest unit of quantity
adjust_order_size(base_size, inv) ==
    IF max_inventory = 0 THEN base_size
    ELSE LET a == IF inv < 0 THEN 0 - inv ELSE inv
             capped == IF a > max_inventory THEN max_inventory ELSE a
         IN  base_size
             - (base_size * capped + max_inventory) \div (2 * max_inventory)

\* layer_size = adjusted_size / (1.0 + layer as f64 * 0.5)
layer_size(adjusted_size, layer) == (2 * adjusted_size) \div (2 + layer)

\* bid_price and ask_price in ticks, for a reservation price of 100 ticks
\* and no imbalance: half of the fixed spread and one tick per layer away
Quote(side, layer) ==
    IF side = "Buy" THEN 100 - FIXED_SPREAD_TICKS \div 2 - layer
    ELSE 100 + FIXED_SPREAD_TICKS \div 2 + layer

\* the scan of check_and_refill_orders: the slots whose order is Filled
filled_orders(os) == {id \in SlotIds : os[id].status = "Filled"}

\* the scan: the slots whose order is Expired or Canceled, or missing
expired_orders(os) == {id \in SlotIds : os[id].status \in {"Expired", "None"}}

\* the ids of a set in increasing order (layer by layer, buy before sell)
RECURSIVE InIdOrder(_)
InIdOrder(S) ==
    IF S = {} THEN <<>>
    ELSE LET m == CHOOSE x \in S : \A y \in S : x <= y
         IN  <<m>> \o InIdOrder(S \ {m})

\* mutant: only the filled slots are submitted again
orders_to_resubmit_FilledOnly(os) == InIdOrder(filled_orders(os))

\* orders_to_resubmit: the filled slots, then the expired ones
orders_to_resubmit(os) ==
    InIdOrder(filled_orders(os)) \o InIdOrder(expired_orders(os))

\* mutant: the first rejected submission ends the loop
Submitted_UntilRejected(seq, rejected) ==
    {seq[i] : i \in {j \in 1..Len(seq) :
                        \A k \in 1..(j - 1) : seq[k] \notin rejected}}

\* `if let Ok(_) = hbt.submit_*_order(..) { register_order(..) }` in a
\* loop: the slots for which a submission is made
Submitted(seq, rejected) == {seq[i] : i \in 1..Len(seq)}

\* the net quantity (buys minus sells) and the cash flow of the fills the
\* scan finds: inventory +/-= qty; realized_pnl -/+= cost, += fee (0.0001
\* of the cost)
RECURSIVE ScanInventory(_, _)
ScanInventory(os, ids) ==
    IF ids = {} THEN 0
    ELSE LET id == CHOOSE x \in ids : TRUE
         IN  (IF SideOf(id) = "Buy" THEN os[id].qty ELSE 0 - os[id].qty)
             + ScanInventory(os, ids \ {id})

RECURSIVE ScanPnl(_, _)
ScanPnl(os, ids) ==
    IF ids = {} THEN 0
    ELSE LET id == CHOOSE x \in ids : TRUE
             cost == os[id].price_tick * os[id].qty
         IN  (IF SideOf(id) = "Buy" THEN cost - 10000 * cost
              ELSE 10000 * cost + cost)
             + ScanPnl(os, ids \ {id})

\* the OrderTracker after mark_filled for every id of a set
RECURSIVE MarkAll(_, _)
MarkAll(t, ids) ==
    IF ids = {} THEN t
    ELSE LET id == CHOOSE x \in ids : TRUE IN
         IF has_order(t.active, id)
         THEN LET order == CHOOSE o \in t.active : o.order_id = id IN
              MarkAll([active |-> HashRemove(t.active, id),
                       filled |-> t.filled + 1,
                       buy |-> AddVolume(t.buy, "Buy", order),
                       sell |-> AddVolume(t.sell, "Sell", order),
                       ops |-> [t.ops EXCEPT
                                  ![id] = [op |-> "mark_filled",
                                           order |-> order, ret |-> "Some"]]],
                      ids \ {id})
         ELSE MarkAll([t EXCEPT
                         !.ops[id] = [op |-> "mark_filled",
                                      order |-> NoOrder, ret |-> "None"]],
                      ids \ {id})

\* the OrderTracker after register_order for every id of a set, with the
\* quote and the size of its layer
RECURSIVE RegisterAll(_, _, _)
RegisterAll(t, ids, size) ==
    IF ids = {} THEN t
    ELSE LET id == CHOOSE x \in ids : TRUE
             r == OrderInfo(id, SideOf(id), Quote(SideOf(id), LayerOf(id)),
                            layer_size(size, LayerOf(id)), LayerOf(id))
         IN  RegisterAll([t EXCEPT
                            !.active = HashInsert(t.active, r),
                            !.ops[id] = [op |-> "register", order |-> r,
                                         ret |-> "none"]],
                         ids \ {id}, size)

\* the OrderTracker fields as one value
Tracker == [active |-> active_orders, filled |-> filled_count,
            buy |-> total_buy_volume, sell |-> total_sell_volume,
            ops |-> last_op]

\* hbt.orders(0) after the accepted submissions
OrdersAfter(os, accepted, size) ==
    [id \in SlotIds |->
        IF id \in accepted
        THEN [status |-> "New",
              qty |-> layer_size(size, LayerOf(id)),
              price_tick |-> Quote(SideOf(id), LayerOf(id))]
        ELSE os[id]]

\* the submissions of one evaluation: the slots of seq are submitted with
\* the given size, those in rejected are refused by the simulator
SubmitAll(t, seq, rejected, size) ==
    \E sub \in {Submitted(seq, rejected)} :
    \E t2 \in {RegisterAll(t, sub \ rejected, size)} :
        /\ orders' = OrdersAfter(orders, sub \ rejected, size)
        /\ active_orders' = t2.active
        /\ filled_count' = t2.filled
        /\ total_buy_volume' = t2.buy
        /\ total_sell_volume' = t2.sell
        /\ last_op' = t2.ops
        /\ last_submitted' = sub
        /\ last_rejected' = sub \cap rejected
        /\ eval_count' = eval_count + 1

\* MarketMakerRunner::run_strategy before its loop, a new OrderTracker
MMInit ==
    /\ RunnerFields("idle", "quiet")
    /\ active_orders = {}
    /\ filled_count = 0
    /\ total_buy_volume = 0
    /\ total_sell_volume = 0
    /\ last_op = [i \in SlotIds |-> NoOp]
    /\ PriceIdle
    /\ BookIdle
    /\ PredIdle
    /\ orders = [id \in SlotIds |-> NoRestingOrder]
    /\ initial_orders_placed = FALSE
    /\ mm_inventory = 0
    /\ mm_realized_pnl = 0
    /\ eval_count = 0
    /\ last_submitted = {}
    /\ last_rejected = {}
    /\ fill_count = 0
    /\ net_filled = 0
    /\ QuoteIdle
    /\ MicroIdle
    /\ RiskManagerNew(MM_VOLATILITY_WINDOW)
    /\ mids_seen = {}
    /\ IndIdle
    /\ PosIdle
    /\ IdIdle
    /\ GuiIdle

\* the first valid update: place_initial_orders submits every slot with
\* the base size
place_initial_orders ==
    /\ ~initial_orders_placed
    /\ eval_count < MaxEvals
    /\ \E t \in {Tracker}, seq \in {InIdOrder(SlotIds)} :
       \E rejected \in SUBSET SlotIds :
          SubmitAll(t, seq, rejected, order_size)
    /\ initial_orders_placed' = TRUE
    /\ UNCHANGED <<mm_inventory, mm_realized_pnl, fill_count, net_filled>>
    /\ UNCHANGED <<appvars, pricevars, bookvars, predvars>>

\* every UPDATE_INTERVAL-th valid update: check_and_refill_orders scans the
\* slots, accounts the filled ones and submits the filled and the expired
\* ones again
check_and_refill_orders ==
    /\ initial_orders_placed
    /\ eval_count < MaxEvals
    /\ \E filled \in {filled_orders(orders)} :
       \E seq \in {orders_to_resubmit(orders)} :
       \E marked \in {MarkAll(Tracker, filled)} :
       \E inv \in {mm_inventory + ScanInventory(orders, filled)} :
           /\ mm_inventory' = inv
           /\ mm_realized_pnl' = mm_realized_pnl + ScanPnl(orders, filled)
           /\ \E rejected \in SUBSET Submitted(seq, {}) :
                 SubmitAll(marked, seq, rejected,
                           adjust_order_size(order_size, inv))
    /\ UNCHANGED <<initial_orders_placed, fill_count, net_filled>>
    /\ UNCHANGED <<appvars, pricevars, bookvars, predvars>>

\* the exchange fills a resting order
ExchangeFill ==
    \E id \in SlotIds :
        /\ orders[id].status = "New"
        /\ eval_count < MaxEvals
        /\ fill_count < MaxFills
        /\ orders' = [orders EXCEPT ![id].status = "Filled"]
        /\ fill_count' = fill_count + 1
        /\ net_filled' = net_filled + (IF SideOf(id) = "Buy"
                                       THEN orders[id].qty
                                       ELSE 0 - orders[id].qty)
        /\ UNCHANGED <<initial_orders_placed, mm_inventory, mm_realized_pnl,
                       eval_count, last_submitted, last_rejected>>
        /\ UNCHANGED <<appvars, trackervars, pricevars, bookvars, predvars>>

\* the exchange expires or cancels a resting order
ExchangeExpire ==
    \E id \in SlotIds :
        /\ orders[id].status = "New"
        /\ eval_count < MaxEvals
        /\ orders' = [orders EXCEPT ![id].status = "Expired"]
        /\ UNCHANGED <<initial_orders_placed, mm_inventory, mm_realized_pnl,
                       eval_count, last_submitted, last_rejected, fill_count,
                       net_filled>>
        /\ UNCHANGED <<appvars, trackervars, pricevars, bookvars, predvars>>

MMNext ==
    \/ place_initial_orders
    \/ check_and_refill_orders
    \/ ExchangeFill
    \/ ExchangeExpire

\* the market maker on one file
MMSpec == MMInit /\ [][MMNext]_vars

(* --------------------------- SpreadCalculator -------------------------- *)
(* f64 arithmetic is decimal floating point here: a value is m * 10^e, and *)
(* the result of every operation is rounded to SignificandDigits           *)
(* significant digits, ties to even.                                       *)
Dec(m, e) == [m |-> m, e |-> e]

RECURSIVE Pow10(_)
Pow10(k) == IF k <= 0 THEN 1 ELSE 10 * Pow10(k - 1)

RECURSIVE Digits10(_)
\* the number of decimal digits of a natural number
Digits10(n) == IF n < 10 THEN 1 ELSE 1 + Digits10(n \div 10)

\* a natural number rounded to a multiple of 10^k, ties to even
RoundNat(n, k) ==
    LET u == Pow10(k)
        q == n \div u
        r == n % u
    IN  IF 2 * r < u THEN q * u
        ELSE IF 2 * r > u THEN (q + 1) * u
        ELSE IF q % 2 = 0 THEN q * u ELSE (q + 1) * u

\* an integer rounded to SignificandDigits significant digits
RoundSig(n) ==
    LET a == IF n < 0 THEN -n ELSE n
        d == Digits10(a)
        ra == IF d <= SignificandDigits THEN a
              ELSE RoundNat(a, d - SignificandDigits)
    IN  IF n < 0 THEN -ra ELSE ra

\* f64 multiplication
FMul(a, b) == Dec(RoundSig(a.m * b.m), a.e + b.e)

\* mutant: the inventory term is added to the mid price
FSub_Adds(a, b) ==
    LET e == IF a.e < b.e THEN a.e ELSE b.e IN
    Dec(RoundSig(a.m * Pow10(a.e - e) + b.m * Pow10(b.e - e)), e)

\* f64 subtraction
FSub(a, b) ==
    LET e == IF a.e < b.e THEN a.e ELSE b.e IN
    Dec(RoundSig(a.m * Pow10(a.e - e) - b.m * Pow10(b.e - e)), e)

\* f64::powi(2)
Powi2(a) == FMul(a, a)

\* a value in millionths, for comparisons (no value of the model has an
\* exponent below -6)
Micro(a) == a.m * Pow10(a.e + 6)

\* mid_price - inventory * self.gamma * volatility.powi(2)
calculate_reservation_price(g, mid, inv, vol) ==
    FSub(mid, FMul(FMul(inv, g), Powi2(vol)))

\* sample arguments: gamma 0.001 (the default) and 0.1; mid prices 100.00,
\* 100.01 and 100.02; inventories from -5 to 5, the smallest ones one and two
\* lots; volatilities 0, 1 and 10
Gammas == {Dec(1, -3), Dec(1, -1)}
MidPrices == {Dec(10000, -2), Dec(10001, -2), Dec(10002, -2)}
Inventories == {Dec(-5, 0), Dec(-1, 0), Dec(-2, -3), Dec(-1, -3), Dec(0, 0),
                Dec(1, -3), Dec(2, -3), Dec(1, 0), Dec(5, 0)}
Volatilities == {Dec(0, 0), Dec(1, 0), Dec(10, 0)}

\* SpreadCalculator::new(gamma)
PriceInit ==
    /\ RunnerFields("idle", "quiet")
    /\ TrackerIdle
    /\ gamma \in Gammas
    /\ mid_price = Dec(0, 0)
    /\ inventory = Dec(0, 0)
    /\ volatility = Dec(0, 0)
    /\ reservation_price = Dec(0, 0)
    /\ BookIdle
    /\ PredIdle
    /\ MMIdle
    /\ CalcIdle

CalcReservation ==
    \E mid \in MidPrices, inv \in Inventories, vol \in Volatilities :
        /\ mid_price' = mid
        /\ inventory' = inv
        /\ volatility' = vol
        /\ reservation_price' =
               calculate_reservation_price(gamma, mid, inv, vol)
        /\ UNCHANGED gamma
        /\ UNCHANGED <<appvars, mmvars, trackervars, bookvars, predvars>>

PriceNext == CalcReservation

\* a SpreadCalculator asked for reservation prices
PriceSpec == PriceInit /\ [][PriceNext]_vars

(* -------------------------- OrderBookImbalance ------------------------- *)
\* ticks of the bid side and of the ask side of a snapshot
BidTicks == 1..BookDepth
AskTicks == (BookDepth + 1)..(2 * BookDepth)

\* what best_bid_tick / best_ask_tick return for an empty side (i64::MIN,
\* i64::MAX): a tick below, above every tick of a snapshot
INVALID_MIN == -1
INVALID_MAX == 2 * BookDepth + 2

\* MarketDepth::best_bid_tick: the highest bid tick holding a quantity
best_bid_tick(bq) ==
    LET S == {t \in DOMAIN bq : bq[t] > 0} IN
    IF S = {} THEN INVALID_MIN ELSE CHOOSE t \in S : \A u \in S : u <= t

\* MarketDepth::best_ask_tick: the lowest ask tick holding a quantity
best_ask_tick(aq) ==
    LET S == {t \in DOMAIN aq : aq[t] > 0} IN
    IF S = {} THEN INVALID_MAX ELSE CHOOSE t \in S : \A u \in S : u >= t

\* MarketDepth::bid_qty_at_tick / ask_qty_at_tick
QtyAtTick(q, t) == IF t \in DOMAIN q THEN q[t] ELSE 0

RECURSIVE SideVolume(_, _, _, _)
\* the loop `for level in 0..depth_levels` for one side: the quantities at
\* best, best + dir, .. that are positive, added up
SideVolume(q, best, dir, levels) ==
    IF levels = 0 THEN 0
    ELSE LET x == QtyAtTick(q, best + dir * (levels - 1)) IN
         SideVolume(q, best, dir, levels - 1) + (IF x > 0 THEN x ELSE 0)

\* an f64 quotient, kept as numerator and denominator
Ratio(n, d) == [num |-> n, den |-> d]

\* mutant: a missing side does not end the calculation
MissingSide_Ignored(bb, ba) == FALSE

\* `best_bid_tick == i64::MIN || best_ask_tick == i64::MAX`
MissingSide(bb, ba) == bb = INVALID_MIN \/ ba = INVALID_MAX

\* OrderBookImbalance::calculate
calculate(bq, aq, levels) ==
    LET bb == best_bid_tick(bq)
        ba == best_ask_tick(aq)
        bid_volume == SideVolume(bq, bb, -1, levels)
        ask_volume == SideVolume(aq, ba, 1, levels)
    IN  IF MissingSide(bb, ba) THEN Ratio(0, 1)
        ELSE IF bid_volume + ask_volume = 0 THEN Ratio(0, 1)
        ELSE Ratio(bid_volume - ask_volume, bid_volume + ask_volume)

\* OrderBookImbalance::new(depth_levels) and any depth snapshot
BookInit ==
    /\ RunnerFields("idle", "quiet")
    /\ TrackerIdle
    /\ PriceIdle
    /\ bid_qty \in [BidTicks -> 0..MaxLevelQty]
    /\ ask_qty \in [AskTicks -> 0..MaxLevelQty]
    /\ depth_levels \in 0..BookDepth
    /\ imbalance = NoRatio
    /\ PredIdle
    /\ MMIdle
    /\ CalcIdle

CalcImbalance ==
    /\ imbalance = NoRatio
    /\ imbalance' = calculate(bid_qty, ask_qty, depth_levels)
    /\ UNCHANGED <<bid_qty, ask_qty, depth_levels>>
    /\ UNCHANGED <<appvars, mmvars, trackervars, pricevars, predvars>>

BookNext == CalcImbalance

\* the imbalance of a depth snapshot
BookSpec == BookInit /\ [][BookNext]_vars

(* --------------------------- PredictionRunner -------------------------- *)
\* ELAPSE_DURATION_NS in milliseconds
ElapseMs == ELAPSE_DURATION_NS \div 1000000

\* PricePredictionData: the timestamp; id and file are history
Prediction(id, t, f) == [id |-> id, timestamp |-> t, file |-> f]

RECURSIVE DueCount(_, _)
\* validate_and_learn_predictions: the number of entries its loop pops, the
\* front entry as long as current_time - timestamp >= prediction_horizon
DueCount(q, now) ==
    IF q # <<>> /\ now - Head(q).timestamp >= PREDICTION_HORIZON_MS
    THEN 1 + DueCount(Tail(q), now)
    ELSE 0

\* the sequence without its first n entries
DropFront(q, n) == SubSeq(q, n + 1, Len(q))

\* `while pending_predictions.len() > 100 { pop_front() }`: entries popped
TrimCount(len) == IF len > PENDING_MAX THEN len - PENDING_MAX ELSE 0

\* the record of a removal: the entry, the clock and file of the tick that
\* removed it, and whether validate_and_learn_predictions removed it
Removal(e, now, f, v) ==
    [id |-> e.id, timestamp |-> e.timestamp, file |-> e.file, at |-> now,
     at_file |-> f, validated |-> v]

\* PredictionRunner::create_runner
PredInit ==
    /\ RunnerFields("idle", "quiet")
    /\ TrackerIdle
    /\ PriceIdle
    /\ BookIdle
    /\ pending_predictions = <<>>
    /\ current_time = 0
    /\ pred_file = 0
    /\ pred_pushed = 0
    /\ pred_removed = <<>>
    /\ pred_skips = 0
    /\ MMIdle
    /\ CalcIdle

\* run_strategy_with_control is entered for the first file, or for the next
\* file after elapse returned EndOfData: current_time_ns restarts at 0, the
\* pending predictions stay
PredFileStart ==
    /\ pred_file < NumFiles
    /\ pred_file = 0 \/ current_time = PredFileLen * ElapseMs
    /\ pred_file' = pred_file + 1
    /\ current_time' = 0
    /\ pred_removed' = <<>>
    /\ UNCHANGED <<pending_predictions, pred_pushed, pred_skips>>
    /\ UNCHANGED <<appvars, mmvars, trackervars, pricevars, bookvars>>

\* an elapse that returns Ok, with a depth that is not valid or gives no
\* features: only the clock advances
PredTickSkip ==
    /\ pred_file > 0
    /\ current_time < PredFileLen * ElapseMs
    /\ pred_skips < MaxSkips
    /\ current_time' = current_time + ElapseMs
    /\ pred_skips' = pred_skips + 1
    /\ pred_removed' = <<>>
    /\ UNCHANGED <<pending_predictions, pred_file, pred_pushed>>
    /\ UNCHANGED <<appvars, mmvars, trackervars, pricevars, bookvars>>

\* an elapse that returns Ok, with features: the due predictions are
\* validated; if predict succeeds (ok) the prediction is pushed and the
\* queue trimmed
PredTick(ok) ==
    LET now == current_time + ElapseMs
        due == DueCount(pending_predictions, now)
        kept == DropFront(pending_predictions, due)
        pushed == IF ok
                  THEN Append(kept, Prediction(pred_pushed + 1, now,
                                               pred_file))
                  ELSE kept
        cut == IF ok THEN TrimCount(Len(pushed)) ELSE 0
    IN  /\ pred_file > 0
        /\ current_time < PredFileLen * ElapseMs
        /\ ok \/ pred_skips < MaxSkips
        /\ current_time' = now
        /\ pending_predictions' = DropFront(pushed, cut)
        /\ pred_pushed' = IF ok THEN pred_pushed + 1 ELSE pred_pushed
        /\ pred_skips' = IF ok THEN pred_skips ELSE pred_skips + 1
        /\ pred_removed' =
               [i \in 1..due |->
                   Removal(pending_predictions[i], now, pred_file, TRUE)]
               \o [i \in 1..cut |-> Removal(pushed[i], now, pred_file, FALSE)]
        /\ UNCHANGED pred_file
        /\ UNCHANGED <<appvars, mmvars, trackervars, pricevars, bookvars>>

\* predict returns Ok or Err
PredTickFeatures == \E ok \in BOOLEAN : PredTick(ok)

PredNext ==
    \/ PredFileStart
    \/ PredTickSkip
    \/ PredTickFeatures

\* the prediction runner over its data files
PredSpec == PredInit /\ [][PredNext]_vars

(* ------------------------------ schedule ------------------------------- *)
\* speeds given to SetSpeed: around every multiple of SpeedGridStep from 0
\* to above SPEED_MAX
SpeedGrid ==
    {k * SpeedGridStep + d :
        k \in 0..(SPEED_MAX \div SpeedGridStep + 1), d \in {-1, 0, 1}}

\* a fresh controller, no schedule computed yet
SpeedInit == RunnerFields("idle", "quiet") /\ LibIdle

\* SetSpeed(x) is applied and run_single_file computes the schedule of its
\* next batch from controller.speed_multiplier()
SetSpeedAndSchedule ==
    \E x \in SpeedGrid :
        LET speed == clamp(x, SPEED_MIN, SPEED_MAX) IN
        /\ speed_multiplier' = speed
        /\ iters_left' = IterationsPerLoop(speed)
        /\ loop_delay_ms' = LoopDelayMs(speed)
        /\ UNCHANGED <<state, should_stop, should_skip, chanvars, hc, pc,
                       file_idx, data_ended, update_count, pos, depth_valid,
                       stop_pc, callhist, filehist, completed_calls,
                       last_snap, obshist, stophist, stratvars, libvars>>

SpeedNext == SetSpeedAndSchedule

\* the schedule of the runner for the speeds the controller can hold
SpeedSpec == SpeedInit /\ [][SpeedNext]_vars

(* ------------------------------- claims -------------------------------- *)
\* the table of section 4.1, written out: the response to a command
TableResponse(c) ==
    CASE c.k = "Start" -> [k |-> "StateChanged", s |-> "Running", n |-> 0]
      [] c.k = "Pause" -> [k |-> "StateChanged", s |-> "Paused", n |-> 0]
      [] c.k = "Stop" -> [k |-> "StateChanged", s |-> "Stopped", n |-> 0]
      [] c.k = "SetSpeed" ->
            [k |-> "SpeedChanged", s |-> "",
             n |-> IF c.x < 10 THEN 10 ELSE IF c.x > 100000 THEN 100000
                   ELSE c.x]
      [] c.k = "ChangeFiles" -> [k |-> "FilesChanged", s |-> "", n |-> c.x]
      [] c.k = "Skip" -> [k |-> "Skipped", s |-> "", n |-> 0]
      [] c.k = "Reset" -> [k |-> "StateChanged", s |-> "Paused", n |-> 0]

\* a step in which a process_commands call that dequeued a command returns
CallApplies == n_applied' # n_applied

\* a step in which a process_commands call returns false
CallTimesOut == last_call' # last_call /\ ~last_call'.ret

\* C1: a process_commands call that dequeues a command emits exactly one
\* response and leaves the controller as the command table says, for every
\* command and every prior state; a call that finds no command returns
\* false, changes nothing and emits no response.
C1_CommandTable ==
    [][/\ CallApplies =>
            /\ n_applied' = n_applied + 1
            /\ last_call'.ret
            /\ resp_count' = resp_count + 1
            /\ resp_count' = n_applied' + completed_calls'
            /\ last_resp' = TableResponse(last_call'.cmd)
            /\ last_call'.cmd.k = "Start" =>
                    state' = "Running" /\ should_stop' = FALSE
            /\ last_call'.cmd.k = "Pause" => state' = "Paused"
            /\ last_call'.cmd.k = "Stop" =>
                    state' = "Stopped" /\ should_stop' = TRUE
            /\ last_call'.cmd.k = "SetSpeed" =>
                    speed_multiplier' = TableResponse(last_call'.cmd).n
            /\ last_call'.cmd.k = "Skip" => should_skip' = TRUE
            /\ last_call'.cmd.k = "Reset" =>
                    /\ state' = "Paused"
                    /\ should_stop' = FALSE
                    /\ should_skip' = FALSE
                    /\ speed_multiplier' = 1000
       /\ CallTimesOut =>
            /\ command_q = <<>>
            /\ UNCHANGED <<state, should_stop, should_skip, speed_multiplier,
                           command_q, resp_count, last_resp, n_applied>>
       /\ ~CallApplies => resp_count' - resp_count = completed_calls' - completed_calls
      ]_vars

\* C1 witness: Reset was applied to a stopped controller
C1_Witness ==
    /\ last_call.cmd.k = "Reset"
    /\ last_call.pre.state = "Stopped"
    /\ last_call.pre.should_stop
    /\ state = "Paused"
    /\ ~should_stop
    /\ last_resp = [k |-> "StateChanged", s |-> "Paused", n |-> 0]

\* C9: commands are applied in the order they were sent, at most one per
\* process_commands call, and their responses are sent in that same order:
\* the k-th command applied is the k-th command sent, and the response sent
\* by that call is the response to that command.
C9_SendOrder ==
    [][/\ Len(command_q') >= Len(command_q) - 1
       /\ (hc = NoCall /\ hc' # NoCall) =>
            /\ hc'.id = n_applied + 1
            /\ Len(command_q') = Len(command_q) - 1
       /\ CallApplies =>
            /\ n_applied' = n_applied + 1
            /\ last_call'.id = n_applied'
            /\ resp_count' = resp_count + 1
            /\ last_resp' = TableResponse(last_call'.cmd)
       /\ n_applied' + Len(command_q') + (IF hc' # NoCall THEN 1 ELSE 0)
             = sent_count'
      ]_vars

\* C9 witness: two commands were queued together and both have been applied
C9_Witness ==
    /\ n_applied = 2
    /\ last_call.id = 2
    /\ last_call.cmd.k = "Stop"
    /\ last_resp = [k |-> "StateChanged", s |-> "Stopped", n |-> 0]

\* C10: after SetSpeed(x) the speed is x clamped to [0.01, 100.0] and the
\* SpeedChanged response carries that value; the speed lies in
\* [0.01, 100.0] in every reachable state, and is 1.0 at construction and
\* after Reset.
C10_SpeedClamped ==
    /\ [](speed_multiplier >= 10 /\ speed_multiplier <= 100000)
    /\ []((sent_count = 0) => speed_multiplier = 1000)
    /\ [][CallApplies =>
            /\ last_call'.cmd.k = "SetSpeed" =>
                 /\ last_call'.cmd.x < 10 => speed_multiplier' = 10
                 /\ last_call'.cmd.x > 100000 => speed_multiplier' = 100000
                 /\ (last_call'.cmd.x >= 10 /\ last_call'.cmd.x <= 100000)
                        => speed_multiplier' = last_call'.cmd.x
                 /\ last_resp'.k = "SpeedChanged"
                 /\ last_resp'.n = speed_multiplier'
            /\ last_call'.cmd.k = "Reset" => speed_multiplier' = 1000
         ]_vars

\* C10 witness: SetSpeed(-5) was applied and the speed is 0.01
C10_Witness ==
    /\ last_call.cmd = Cmd("SetSpeed", -5000)
    /\ speed_multiplier = 10
    /\ last_resp = [k |-> "SpeedChanged", s |-> "", n |-> 10]

\* a step in which handle_command does its first store for command kind k
FirstStoreOf(k) == hc = NoCall /\ hc' # NoCall /\ hc'.cmd.k = k

\* C2 as stated: once the ControlState is Stopped, nothing changes it.
C2_StoppedForever == [][state = "Stopped" => state' = "Stopped"]_vars

\* C2 as amended: once Stopped, the state leaves Stopped only when
\* process_commands applies a later Start (to Running), Pause or Reset (to
\* Paused), or when mark_completed stores Completed; every other command,
\* a call that times out and every other step leave it Stopped.
C2_StoppedUntilCommand ==
    [][(state = "Stopped" /\ state' # "Stopped") =>
          \/ FirstStoreOf("Start") /\ state' = "Running"
          \/ FirstStoreOf("Reset") /\ state' = "Paused"
          \/ /\ CallApplies
             /\ last_call'.cmd.k = "Pause"
             /\ state' = "Paused"
          \/ /\ completed_calls' = completed_calls + 1
             /\ state' = "Completed"
      ]_vars

\* C2 witness: Start was applied to a stopped controller, which is Running
C2_Witness ==
    /\ last_call.cmd.k = "Start"
    /\ last_call.pre.state = "Stopped"
    /\ last_call.pre.should_stop
    /\ state = "Running"
    /\ ~should_stop

\* C3: the state is Completed (and a Completed response sent) only through
\* mark_completed, called at most once, only after every data file has
\* been started and run to end-of-data (on_file_end invoked, no elapse
\* error), and only when no stop was observed during the run.
C3_CompletedOnlyAfterAllFiles ==
    /\ state = "Completed" => completed_calls >= 1
    /\ last_resp.k = "Completed" => completed_calls >= 1
    /\ completed_calls <= 1
    /\ completed_calls >= 1 =>
          /\ \A f \in 1..NumFiles :
                f \in started /\ f \in file_end_called /\ f \notin file_err
          /\ ~stop_seen

\* C4 as stated: when Stop is sent while the state is Running and a file is
\* being processed (no other command queued), should_stop is true once it
\* has been applied and on_file_end is not invoked for that file.  Files
\* whose elapse returned an error are left out.
C4_StopSkipsFileEnd ==
    (stop_sent_in # 0 /\ stop_sent_in \notin file_err) =>
        /\ (last_call.cmd.k = "Stop" /\ hc = NoCall) => should_stop
        /\ stop_sent_in \notin file_end_called

\* C4 as amended: the process_commands call that dequeues Stop makes
\* should_stop true; when that call is made inside the per-file loop (pause
\* wait or poll), the next step of the runner leaves the loop: no further
\* elapse, no on_file_end for the file then being processed.
C4_StopAppliedInLoop ==
    [][/\ (CallApplies /\ last_call'.cmd.k = "Stop") => should_stop'
       /\ stop_applied_in # 0 =>
            /\ stop_applied_in \notin file_end_called'
            /\ file_idx = stop_applied_in =>
                 /\ pc \in {"pause_stop_chk", "poll_stop_chk"}
                 /\ pos' = pos
                 /\ pc' # pc =>
                      file_idx' = file_idx + 1 /\ pc' \notin InFilePcs
      ]_vars

\* C4 witness: Stop was applied inside the loop of file 1, which was left
\* without on_file_end
C4_Witness ==
    /\ stop_applied_in = 1
    /\ file_idx = 2
    /\ 1 \in started
    /\ 1 \notin file_end_called
    /\ should_stop

\* C5: a stop request made by a direct stop() call while the runner is in
\* the file loop is not lost: until the strategy thread has observed it (or
\* has left the file loop), should_stop stays true.
C5_StopNeverLost ==
    (stop_direct /\ ~stop_seen /\ pc \in FileLoopPcs /\ hc = NoCall)
        => should_stop

\* C6: a file is started only after the runner has read state Running and
\* should_stop false; once the runner has read should_stop true, no file is
\* started, no tick is run, and the runner does not wait for Start again.
C6_StartOnlyWhenRunning ==
    [][/\ started' # started =>
            seen_running /\ ~stop_seen /\ ~should_stop
       /\ stop_seen =>
            /\ started' = started
            /\ pos' = pos
            /\ update_count' = update_count
            /\ pc' \in {"wait_chk", "start_chk", "after_files", "keep1",
                        "keep2", "done"}
      ]_vars

\* C6 witness: file 1 was started, then a stop was observed, and the run
\* was abandoned without starting file 2
C6_Witness ==
    /\ stop_seen
    /\ started = {1}
    /\ pc = "keep1"
    /\ completed_calls = 0

\* C7: run_with_controller never returns after the file loop has ended.
C7_NeverReturns == pc # "done"

\* C8 as stated: across all snapshots of a run, every timestamp is at least
\* the timestamp of the snapshot before it.
C8_TimestampsMonotone ==
    [][(last_snap' # last_snap /\ last_snap.file # 0) =>
          last_snap'.ts >= last_snap.ts]_vars

\* C8 as amended: among the snapshots of one data file, every timestamp is
\* at least the timestamp of the snapshot before it; a snapshot's timestamp
\* is the number of valid updates of its file so far times 0.1 s.
C8_TimestampsMonotonePerFile ==
    [][last_snap' # last_snap =>
          /\ last_snap'.file = file_idx
          /\ last_snap'.ts = update_count * 100000000
          /\ last_snap'.ts <= pos * 100000000
          /\ last_snap'.file = last_snap.file =>
                last_snap'.ts >= last_snap.ts
      ]_vars

\* C8 witness: two snapshots of file 2 were sent, the later one at 0.2 s
C8_Witness ==
    /\ last_snap.file = 2
    /\ last_snap.n = 2
    /\ last_snap.ts = 200000000

\* the response kinds handle_command sends, by command kind
AcceptedKinds ==
    {<<"Start", "StateChanged">>, <<"Pause", "StateChanged">>,
     <<"Stop", "StateChanged">>, <<"Reset", "StateChanged">>,
     <<"SetSpeed", "SpeedChanged">>, <<"ChangeFiles", "FilesChanged">>,
     <<"Skip", "Skipped">>}

\* C11: every command is accepted in every ControlState (a queued command
\* can always be dequeued, and the response is the command's own, never an
\* Error), and a command applied right after the same command leaves
\* state, flags and speed as the first application left them, each
\* application sending one response.
C11_AcceptedIdempotent ==
    /\ [](command_q # <<>> /\ hc = NoCall /\ pc = "ctl" => ENABLED CtlRecv)
    /\ [][CallApplies =>
            /\ <<last_call'.cmd.k, last_resp'.k>> \in AcceptedKinds
            /\ resp_count' = resp_count + 1
            /\ (/\ last_call.ret
                /\ last_call.cmd = last_call'.cmd
                /\ last_call'.pre = last_call.post)
                  => /\ last_call'.post = last_call.post
                     /\ Ctl' = last_call.post
                     /\ last_resp' = last_resp
         ]_vars

\* C11 witness: Pause was applied twice in succession, the second time to
\* the controller as the first left it
C11_Witness ==
    /\ n_applied = 2
    /\ last_call.cmd.k = "Pause"
    /\ last_call.pre.state = "Paused"
    /\ last_call.pre = last_call.post
    /\ resp_count = 2

\* C12: an Err returned by on_tick does not end the per-file loop or the
\* run: the step in which on_tick fails leaves the runner inside the tick
\* batch of the same file with the data not ended, the tick counted like
\* any other, and the controller untouched.
C12_TickErrorSkipped ==
    [][tick_errs' > tick_errs =>
          /\ tick_errs' = tick_errs + 1
          /\ pc = "batch" /\ pc' = "batch"
          /\ ~data_ended /\ ~data_ended'
          /\ file_idx' = file_idx
          /\ file_err' = file_err
          /\ update_count' = update_count + 1
          /\ pos' = pos + 1
          /\ iters_left' = iters_left - 1
          /\ UNCHANGED <<state, should_stop, should_skip, speed_multiplier>>
      ]_vars

\* C12 witness: every on_tick call of the last file failed, and the run
\* went through all files to the end of their data and completed
C12_Witness ==
    /\ tick_errs = FileLen
    /\ ticks = FileLen
    /\ file_end_called = 1..NumFiles
    /\ file_err = {}
    /\ completed_calls = 1

\* C13: when a per-file run has been left because of a stop request, the
\* final statistics of that file were reported (on_file_end, the only hook
\* of the strategy the runner calls at the end of a file) and the position
\* is Flat.
C13_StopReportsFlat ==
    (stop_applied_in # 0 /\ file_idx > stop_applied_in) =>
        /\ stop_applied_in \in file_end_called
        /\ position = "Flat"

\* C14: register_order(id, ..) followed by mark_filled(id), whatever was done
\* to other ids in between, returns Some(record) with the registered side
\* and qty, adds 1 to filled_count, adds qty to the volume of the registered
\* side and nothing to the other side, and leaves has_order(id) false
C14_RegisterThenFill ==
    [][\A id \in OrderIds :
        (last_op[id].op = "register" /\ last_op'[id].op = "mark_filled") =>
            LET r == last_op[id].order IN
            /\ last_op'[id].ret = "Some"
            /\ last_op'[id].order.side = r.side
            /\ last_op'[id].order.qty = r.qty
            /\ filled_count' = filled_count + 1
            /\ total_buy_volume' =
                   total_buy_volume + (IF r.side = "Buy" THEN r.qty ELSE 0)
            /\ total_sell_volume' =
                   total_sell_volume + (IF r.side = "Sell" THEN r.qty ELSE 0)
            /\ ~has_order(active_orders', id)]_vars

\* a Sell order of quantity 2 registered under id 1 has just been filled
\* while another order is still active
C14_Witness ==
    /\ last_op[1].op = "mark_filled"
    /\ last_op[1].ret = "Some"
    /\ last_op[1].order.side = "Sell"
    /\ last_op[1].order.qty = 2
    /\ total_sell_volume = 2
    /\ total_buy_volume = 0
    /\ filled_count = 1
    /\ has_order(active_orders, 0)

\* C15: registering under an id that was marked filled stores the new
\* record; the tracker never holds two records for one id, and active_count
\* is the number of ids whose last operation is a registration
C15_ReRegister ==
    /\ [](/\ \A id \in OrderIds :
                Cardinality({o \in active_orders : o.order_id = id}) <= 1
          /\ active_count =
                Cardinality({id \in OrderIds : last_op[id].op = "register"}))
    /\ [][\A id \in OrderIds :
            (last_op[id].op = "mark_filled" /\ last_op'[id].op = "register")
                => /\ has_order(active_orders', id)
                   /\ last_op'[id].order \in active_orders']_vars

\* id 0 has been filled MaxFills times and is registered again, the other
\* ids never used
C15_Witness ==
    /\ filled_count = MaxFills
    /\ last_op[0].op = "register"
    /\ has_order(active_orders, 0)
    /\ active_count = 1
    /\ \A id \in OrderIds \ {0} : last_op[id].op = "none"

C17_BidVolume ==
    SideVolume(bid_qty, best_bid_tick(bid_qty), -1, depth_levels)

C17_AskVolume ==
    SideVolume(ask_qty, best_ask_tick(ask_qty), 1, depth_levels)

\* C17 (as stated): the imbalance lies in [-1, 1]; it is 0 when the two
\* volumes are equal; it is +1 when the ask volume is 0 and the bid volume
\* positive, and -1 when the bid volume is 0 and the ask volume positive
C17_OneSidedIsExtreme ==
    imbalance # NoRatio =>
        /\ imbalance.den > 0
        /\ -imbalance.den <= imbalance.num
        /\ imbalance.num <= imbalance.den
        /\ C17_BidVolume = C17_AskVolume => imbalance.num = 0
        /\ (C17_AskVolume = 0 /\ C17_BidVolume > 0)
              => imbalance.num = imbalance.den
        /\ (C17_BidVolume = 0 /\ C17_AskVolume > 0)
              => imbalance.num = -imbalance.den

\* C17 (amended): the imbalance lies in [-1, 1]; it is 0 when the two
\* volumes are equal (both zero included) and whenever one side of the
\* snapshot is empty; with both sides present and depth_levels > 0 both
\* volumes are positive and the imbalance is (bid - ask) / (bid + ask),
\* strictly between -1 and 1
C17_OneSidedIsZero ==
    imbalance # NoRatio =>
        /\ imbalance.den > 0
        /\ -imbalance.den <= imbalance.num
        /\ imbalance.num <= imbalance.den
        /\ C17_BidVolume = C17_AskVolume => imbalance.num = 0
        /\ (C17_BidVolume = 0 \/ C17_AskVolume = 0) => imbalance.num = 0
        /\ (C17_BidVolume > 0 /\ C17_AskVolume > 0)
              => /\ imbalance.num = C17_BidVolume - C17_AskVolume
                 /\ imbalance.den = C17_BidVolume + C17_AskVolume
                 /\ -imbalance.den < imbalance.num
                 /\ imbalance.num < imbalance.den

\* the imbalance of a snapshot with bids and no asks has been computed
C17_Witness ==
    /\ imbalance = Ratio(0, 1)
    /\ depth_levels = BookDepth
    /\ C17_BidVolume = BookDepth * MaxLevelQty
    /\ C17_AskVolume = 0

\* C18: an entry leaves the pending FIFO only by validation, at a tick whose
\* clock is at least the entry's timestamp plus the horizon
C18_RemovedOnlyValidated ==
    \A i \in 1..Len(pred_removed) :
        /\ pred_removed[i].validated
        /\ pred_removed[i].at >=
               pred_removed[i].timestamp + PREDICTION_HORIZON_MS

\* C19 (as stated): at every speed s in [0.01, 100]: s >= 100 gives 100
\* ticks and no delay; 10 <= s < 100 gives ceil(s / 10) ticks and 1 ms;
\* s < 10 gives 1 tick and a delay of exactly 10 / s ms
C19_DelayIsQuotient ==
    iters_left > 0 =>
        /\ SPEED_MIN <= speed_multiplier /\ speed_multiplier <= SPEED_MAX
        /\ speed_multiplier >= 100000
              => iters_left = 100 /\ loop_delay_ms = 0
        /\ (10000 <= speed_multiplier /\ speed_multiplier < 100000)
              => /\ iters_left * 10000 >= speed_multiplier
                 /\ (iters_left - 1) * 10000 < speed_multiplier
                 /\ loop_delay_ms = 1
        /\ speed_multiplier < 10000
              => /\ iters_left = 1
                 /\ loop_delay_ms * speed_multiplier = 10000

\* C19 (amended): as above, but at s < 10 the delay is 10 / s ms rounded
\* down to whole milliseconds; s = 0.5 gives 1 tick and 20 ms
C19_DelayIsTruncated ==
    iters_left > 0 =>
        /\ SPEED_MIN <= speed_multiplier /\ speed_multiplier <= SPEED_MAX
        /\ speed_multiplier >= 100000
              => iters_left = 100 /\ loop_delay_ms = 0
        /\ (10000 <= speed_multiplier /\ speed_multiplier < 100000)
              => /\ iters_left * 10000 >= speed_multiplier
                 /\ (iters_left - 1) * 10000 < speed_multiplier
                 /\ loop_delay_ms = 1
        /\ speed_multiplier < 10000
              => /\ iters_left = 1
                 /\ loop_delay_ms * speed_multiplier <= 10000
                 /\ (loop_delay_ms + 1) * speed_multiplier > 10000
        /\ speed_multiplier = 500 => iters_left = 1 /\ loop_delay_ms = 20

\* the schedule of speed 3.0 has been computed: 1 tick, and 10 / 3 ms cut to
\* 3 ms
C19_Witness ==
    /\ speed_multiplier = 3000
    /\ iters_left = 1
    /\ loop_delay_ms = 3

\* C20: at every speed in [0.01, 100] the batch has 1 to 100 ticks and the
\* delay is at most 1000 ms; of two schedules, the one of the higher speed
\* has at least as many ticks and at most as much delay
C20_ScheduleMonotone ==
    /\ [](iters_left > 0 =>
            /\ 1 <= iters_left /\ iters_left <= 100
            /\ 0 <= loop_delay_ms /\ loop_delay_ms <= 1000)
    /\ [][(iters_left > 0 /\ speed_multiplier' >= speed_multiplier)
            => /\ iters_left' >= iters_left
               /\ loop_delay_ms' <= loop_delay_ms]_vars

\* the slowest schedule has been computed: speed 0.01, 1 tick, 1000 ms
C20_Witness ==
    /\ speed_multiplier = SPEED_MIN
    /\ iters_left = 1
    /\ loop_delay_ms = 1000

\* C21: files are started in list order, each once, with on_file_start
\* before any on_tick of the file; on_file_end is invoked at most once per
\* file, only for the file being run, only after the simulator reported
\* end-of-data for it (elapse returned EndOfData, not an error); on_tick is
\* invoked only for a started file whose on_file_end has not been invoked
C21_FileHooksOrdered ==
    [][/\ started' # started =>
            /\ started' = started \cup {file_idx}
            /\ file_idx \notin started
            /\ \A g \in started : g < file_idx
            /\ ticks' = 0
       /\ ticks' > ticks =>
            /\ file_idx \in started
            /\ file_idx \notin file_end_called
       /\ file_end_called' # file_end_called =>
            /\ file_end_called' = file_end_called \cup {file_idx}
            /\ file_idx \notin file_end_called
            /\ file_idx \in started
            /\ data_ended
            /\ pos = FileLen
            /\ file_idx \notin file_err
      ]_vars

\* C24: while the controller is as an applied Pause command left it (the
\* last process_commands call applied Pause, state Paused), the runner
\* advances the simulator by no tick and invokes no tick handler
C24_PausedMeansNoTick ==
    [][(/\ last_call.ret
        /\ last_call.cmd.k = "Pause"
        /\ hc = NoCall
        /\ state = "Paused"
        /\ last_resp = Resp("StateChanged", "Paused", 0))
          => pos' = pos /\ ticks' = ticks]_vars

\* C26: whenever neither stop() nor handle_command is between its stores,
\* state Stopped implies should_stop true
C26_StoppedHasFlag ==
    (hc = NoCall /\ stop_pc # "mid") => (state = "Stopped" => should_stop)

\* C27: of the controller's fields, an applied SetSpeed, ChangeFiles or Skip
\* leaves state and should_stop as they were; Pause leaves should_stop,
\* should_skip and speed; Start and Stop leave should_skip and speed;
\* ChangeFiles leaves every field
C27_FrameEffects ==
    [][CallApplies =>
         LET k == last_call'.cmd.k
             pre == last_call'.pre
         IN  /\ k \in {"SetSpeed", "ChangeFiles", "Skip"} =>
                   /\ state' = pre.state
                   /\ should_stop' = pre.should_stop
             /\ k = "Pause" =>
                   /\ should_stop' = pre.should_stop
                   /\ should_skip' = pre.should_skip
                   /\ speed_multiplier' = pre.speed
             /\ k \in {"Start", "Stop"} =>
                   /\ should_skip' = pre.should_skip
                   /\ speed_multiplier' = pre.speed
             /\ k = "ChangeFiles" => Ctl' = pre
      ]_vars

\* C27 witness: Start was applied to a controller whose should_skip a Skip
\* had set, and the flag is still set
C27_Witness ==
    /\ last_call.ret
    /\ last_call.cmd.k = "Start"
    /\ last_call.pre.should_skip
    /\ should_skip
    /\ hc = NoCall
    /\ n_applied = 2

\* the StrategyState fields kept in the model
StrategyStateFields == <<update_count, position, st_mid_price>>

\* C22 as stated: each file gets a StrategyState with every field zero, and
\* until on_file_end a field of it changes only in a step that invokes the
\* tick handler; the telemetry step changes none
C22_RunnerNeverWrites ==
    [][/\ started' # started =>
            StrategyStateFields' = <<0, "Flat", 0>>
       /\ (started' = started /\ StrategyStateFields' # StrategyStateFields)
            => ticks' = ticks + 1
       /\ last_snap' # last_snap => StrategyStateFields' = StrategyStateFields
      ]_vars

\* C22 amended: each file gets a StrategyState with every field zero; of its
\* fields the runner itself writes update_count (plus one, on a simulator
\* advance that leaves a valid book) and mid_price (the book's mid price,
\* in a step that invokes the tick handler); position changes only in a
\* step that invokes the tick handler; the telemetry step changes no field
\* and reports the time update_count gives
C22_RunnerWritesCountAndMid ==
    [][/\ started' # started =>
            StrategyStateFields' = <<0, "Flat", 0>>
       /\ started' = started =>
            /\ update_count' # update_count =>
                  /\ update_count' = update_count + 1
                  /\ pos' = pos + 1
                  /\ depth_valid'
            /\ st_mid_price' # st_mid_price =>
                  /\ ticks' = ticks + 1
                  /\ st_mid_price' = MidPriceAt(pos')
            /\ position' # position => ticks' = ticks + 1
       /\ last_snap' # last_snap =>
            /\ StrategyStateFields' = StrategyStateFields
            /\ last_snap'.ts = SimTime(update_count)
      ]_vars

\* C22 witness: in a started file the runner has counted one update and the
\* tick handler has not been invoked yet
C22_Witness ==
    /\ strategy = "sparse"
    /\ file_idx \in started
    /\ update_count = 1
    /\ ticks = 0
    /\ st_mid_price = 0
    /\ pos >= 1

\* C23: the update counter goes up by exactly one on a simulator advance
\* that leaves a valid book and on no other step of a file; the tick
\* handler is invoked exactly on the valid updates whose counter is a
\* multiple of the strategy's update_interval(), once each: on every valid
\* update for the default interval
C23_CountAndTickOnValid ==
    [][started' = started =>
         /\ update_count' # update_count =>
               update_count' = update_count + 1
         /\ pos' # pos => pos' = pos + 1
         /\ update_count' # update_count <=> (pos' # pos /\ depth_valid')
         /\ ticks' # ticks => ticks' = ticks + 1
         /\ ticks' # ticks <=>
               /\ update_count' # update_count
               /\ update_count' % (IF strategy = "sparse"
                                    THEN SparseInterval ELSE 1) = 0
         /\ strategy = "quiet" =>
               (ticks' # ticks <=> update_count' # update_count)
      ]_vars

\* C23 witness: with an interval of SparseInterval the counter has reached
\* the interval and the tick handler has been invoked once
C23_Witness ==
    /\ strategy = "sparse"
    /\ update_count = SparseInterval
    /\ ticks = 1
    /\ st_mid_price = MidPriceAt(pos)

\* C25: an error returned by execute_strategy is skipped: the step in which
\* it fails leaves the runner inside the tick batch of the same file, and
\* the run goes on
C25_StrategyErrorSkipped ==
    [][tick_errs' > tick_errs =>
          /\ pc' = "batch"
          /\ ~data_ended'
          /\ file_idx' = file_idx
      ]_vars

\* a step that is a scheduled evaluation of the market maker
Evaluates == eval_count' # eval_count

\* C28: after an evaluation in which every submission was accepted, each
\* layer L below order_layers has exactly one resting buy order, under id
\* 2L, and exactly one resting sell order, under id 2L + 1, and the order
\* tracker holds exactly these as its active orders of the layer
C28_OnePairPerLayer ==
    [][(Evaluates /\ last_rejected' = {}) =>
         \A L \in 0..(order_layers - 1) :
            /\ orders'[2 * L].status = "New"
            /\ orders'[2 * L + 1].status = "New"
            /\ {o.order_id : o \in {a \in active_orders' :
                     a.layer = L /\ a.side = "Buy"}} = {2 * L}
            /\ {o.order_id : o \in {a \in active_orders' :
                     a.layer = L /\ a.side = "Sell"}} = {2 * L + 1}
            /\ Cardinality({a \in active_orders' : a.layer = L}) = 2
      ]_vars

\* C28 witness: a refill that found a filled slot had every submission
\* accepted, and both slots of every layer rest
C28_Witness ==
    /\ eval_count >= 2
    /\ last_submitted # {}
    /\ last_rejected = {}
    /\ filled_count >= 1
    /\ \A id \in SlotIds : orders[id].status = "New"

\* C29: after every evaluation the inventory is the net quantity of the
\* fills the exchange has made, each counted once (filled buys minus
\* filled sells)
C29_FillCountedOnce ==
    [][Evaluates => mm_inventory' = net_filled']_vars

\* C30: a rejected submission ends neither the evaluation nor the run: an
\* evaluation submits every slot that has no resting order (all of them at
\* the initial placement; the filled, expired and missing ones at a
\* refill) whatever is rejected, the accepted ones rest, the rejected ones
\* leave hbt.orders(0) alone, the initial placement counts as done, and
\* the slots the previous evaluation had rejected are submitted again
C30_RejectedIsRetried ==
    [][Evaluates =>
         /\ last_submitted' =
               IF ~initial_orders_placed THEN SlotIds
               ELSE {id \in SlotIds : orders[id].status # "New"}
         /\ last_rejected' \subseteq last_submitted'
         /\ \A id \in last_submitted' \ last_rejected' :
               orders'[id].status = "New"
         /\ \A id \in last_rejected' : orders'[id] = orders[id]
         /\ initial_orders_placed'
         /\ last_rejected \subseteq last_submitted'
      ]_vars

\* C30 witness: the buy of layer 0 was rejected at the initial placement
\* and again at the first refill, whose later submissions were accepted
C30_Witness ==
    /\ eval_count = 2
    /\ orders[0].status = "None"
    /\ 0 \in last_rejected
    /\ last_submitted \ last_rejected # {}
    /\ \A id \in last_submitted \ last_rejected : orders[id].status = "New"

\* C31: after every evaluation each id the OrderTracker holds is the id of
\* an order that rests in the simulator
C31_TrackedAreResting ==
    [][Evaluates =>
         \A o \in active_orders' : orders'[o.order_id].status = "New"]_vars

(* ---------------- the layered quotes of the market maker --------------- *)
\* Prices of this section are in hundredths of a tick of the book; an
\* imbalance is a Ratio.  quote_in holds the arguments of one quote:
\* reservation_price, imbalance, the layer, the side and the inventory.

\* one tick of the book, in hundredths of a tick
TickUnits == 100
\* TICK_SIZE = 0.00001 of a price unit: the ticks that make one price unit
TICKS_PER_PRICE == 100000

\* f64::round of x / d: to the nearest integer, halves away from zero
RoundDiv(x, d) ==
    IF x >= 0 THEN (2 * x + d) \div (2 * d)
    ELSE 0 - ((2 * (0 - x) + d) \div (2 * d))

\* half_spread = FIXED_SPREAD_TICKS * tick_size / 2.0
half_spread == (FIXED_SPREAD_TICKS * TickUnits) \div 2

\* imbalance_adjustment = imbalance * half_spread * 0.1
imbalance_adjustment(imb) ==
    IF imb.den = 0 THEN 0 ELSE (imb.num * half_spread) \div (imb.den * 10)

\* layer_offset = layer as f64 * 1.0 * tick_size
layer_offset(layer) == layer * TickUnits

\* bid_price = reservation_price - half_spread - layer_offset
\*             + imbalance_adjustment
bid_price(res, imb, layer) ==
    res - half_spread - layer_offset(layer) + imbalance_adjustment(imb)

\* ask_price = reservation_price + half_spread + layer_offset
\*             - imbalance_adjustment
ask_price(res, imb, layer) ==
    res + half_spread + layer_offset(layer) - imbalance_adjustment(imb)

\* bid_tick / ask_tick = (price / tick_size).round() as i64
price_tick(price) == RoundDiv(price, TickUnits)

\* the price argument of submit_buy_order / submit_sell_order is
\* `bid_tick as f64`: the tick index, taken by the simulator as a price
SubmittedPrice(tick) == tick * TICKS_PER_PRICE * TickUnits

\* one pass of the loop body for a slot: the price computed, its tick, the
\* price and the size given to the simulator, the price registered
QuoteOf(q, size) ==
    LET price == IF q.side = "Buy"
                 THEN bid_price(q.reservation, q.imbalance, q.layer)
                 ELSE ask_price(q.reservation, q.imbalance, q.layer)
        tick == price_tick(price)
    IN  [price |-> price, tick |-> tick, submitted |-> SubmittedPrice(tick),
         size |-> layer_size(size, q.layer), registered |-> price,
         by |-> "none"]

\* the reservation prices, imbalances and inventories quoted for
QuoteReservations == {1000, 1020, 1049, 1050}
QuoteImbalances ==
    {Ratio(-1, 1), Ratio(-1, 2), Ratio(0, 1), Ratio(1, 2), Ratio(1, 1)}
QuoteInventories == {0, max_inventory \div 2, max_inventory}

QuoteInit ==
    /\ RunnerFields("idle", "quiet")
    /\ TrackerIdle /\ PriceIdle /\ BookIdle /\ PredIdle /\ MMIdle
    /\ MicroIdle /\ RiskIdle /\ IndIdle /\ PosIdle /\ IdIdle /\ GuiIdle
    /\ quote_in \in [reservation : QuoteReservations,
                     imbalance : QuoteImbalances,
                     layer : 0..(order_layers - 1),
                     side : {"Buy", "Sell"},
                     inventory : QuoteInventories]
    /\ quote_out = <<>>

not_quotevars ==
    <<runnervars, complib, microvars, riskvars, indvars, posvars, idvars,
      guivars>>

\* place_initial_orders: the quote of one slot, with the base size
InitialQuote ==
    /\ quote_out = <<>>
    /\ quote_in.inventory = 0
    /\ quote_out' = [QuoteOf(quote_in, order_size) EXCEPT !.by = "initial"]
    /\ UNCHANGED <<quote_in, not_quotevars>>

\* check_and_refill_orders: the quote of one resubmitted slot, with the
\* size adjusted to the inventory
RefillQuote ==
    /\ quote_out = <<>>
    /\ quote_out' =
         [QuoteOf(quote_in,
                  adjust_order_size(order_size, quote_in.inventory))
            EXCEPT !.by = "refill"]
    /\ UNCHANGED <<quote_in, not_quotevars>>

QuoteNext ==
    \/ InitialQuote
    \/ RefillQuote

\* the quotes of the layers
QuoteSpec == QuoteInit /\ [][QuoteNext]_vars

\* the quote the documentation gives for a slot: the imbalance offset taken
\* from the bid and added to the ask, on the tick grid, with the base size
DocumentedPrice(q) ==
    LET offset == imbalance_adjustment(q.imbalance)
        p == IF q.side = "Buy"
             THEN q.reservation - half_spread - q.layer * TickUnits - offset
             ELSE q.reservation + half_spread + q.layer * TickUnits + offset
    IN  price_tick(p) * TickUnits

WeightedPrice_OwnSide(bid_volume, ask_volume, bb, ba) ==
    Ratio(bid_volume * bb + ask_volume * ba, bid_volume + ask_volume)

\* (bid_volume * best_ask_price + ask_volume * best_bid_price)
\*     / (bid_volume + ask_volume)
WeightedPrice(bid_volume, ask_volume, bb, ba) ==
    Ratio(bid_volume * ba + ask_volume * bb, bid_volume + ask_volume)

\* MicroPriceCalculator::calculate
micro_calculate(bq, aq, levels) ==
    LET bb == best_bid_tick(bq)
        ba == best_ask_tick(aq)
        bid_volume == SideVolume(bq, bb, -1, levels)
        ask_volume == SideVolume(aq, ba, 1, levels)
    IN  IF MissingSide(bb, ba) THEN Ratio(0, 1)
        ELSE IF bid_volume + ask_volume = 0 THEN Ratio(bb + ba, 2)
        ELSE WeightedPrice(bid_volume, ask_volume, bb, ba)

\* MicroPriceCalculator::new(depth_levels) and any depth snapshot
MicroInit ==
    /\ RunnerFields("idle", "quiet")
    /\ TrackerIdle /\ PriceIdle /\ PredIdle /\ MMIdle
    /\ QuoteIdle /\ RiskIdle /\ IndIdle /\ PosIdle /\ IdIdle /\ GuiIdle
    /\ bid_qty \in [BidTicks -> 0..MaxLevelQty]
    /\ ask_qty \in [AskTicks -> 0..MaxLevelQty]
    /\ depth_levels \in 0..BookDepth
    /\ imbalance = NoRatio
    /\ micro_price = NoRatio

not_microvars ==
    <<runnervars, complib, quotevars, riskvars, indvars, posvars, idvars,
      guivars>>

CalcMicroPrice ==
    /\ micro_price = NoRatio
    /\ micro_price' = micro_calculate(bid_qty, ask_qty, depth_levels)
    /\ UNCHANGED not_microvars

MicroNext == CalcMicroPrice

\* the micro-price of a depth snapshot
MicroSpec == MicroInit /\ [][MicroNext]_vars

RECURSIVE QtySum(_, _)
\* the quantities of a side at the ticks of a set, added up
QtySum(q, T) ==
    IF T = {} THEN 0
    ELSE LET t == CHOOSE x \in T : TRUE IN q[t] + QtySum(q, T \ {t})

\* the volume of a side over the depth_levels ticks from its best tick, for
\* a best bid B and a best ask A
C33_BidVolume(B) ==
    QtySum(bid_qty, {t \in DOMAIN bid_qty : B - depth_levels < t /\ t <= B})

C33_AskVolume(A) ==
    QtySum(ask_qty, {t \in DOMAIN ask_qty : A <= t /\ t < A + depth_levels})

\* C33: for a snapshot with both sides present the micro-price is
\* (bid_volume * best_ask + ask_volume * best_bid) / (bid_volume +
\* ask_volume) over depth_levels levels; it lies between the best bid and
\* the best ask, is the midpoint when the volumes are equal or both zero,
\* above the midpoint when the bid volume is larger and below it when the
\* ask volume is larger
C33_MicroPrice ==
    \A B \in BidTicks, A \in AskTicks :
       ( /\ micro_price # NoRatio
         /\ bid_qty[B] > 0 /\ \A t \in BidTicks : t > B => bid_qty[t] = 0
         /\ ask_qty[A] > 0 /\ \A t \in AskTicks : t < A => ask_qty[t] = 0 )
       => LET bv == C33_BidVolume(B)
              av == C33_AskVolume(A)
              n == micro_price.num
              d == micro_price.den
          IN  /\ d > 0
              /\ bv + av > 0 => n * (bv + av) = (bv * A + av * B) * d
              /\ B * d <= n /\ n <= A * d
              /\ bv = av => 2 * n = (A + B) * d
              /\ bv > av => 2 * n > (A + B) * d
              /\ bv < av => 2 * n < (A + B) * d

\* the micro-price of a snapshot with more bid than ask volume has been
\* computed and lies strictly above the midpoint, below the best ask
C33_Witness ==
    /\ micro_price # NoRatio
    /\ depth_levels = BookDepth
    /\ bid_qty = [t \in BidTicks |-> MaxLevelQty]
    /\ ask_qty = [t \in AskTicks |-> IF t = BookDepth + 1 THEN 1 ELSE 0]
    /\ 2 * micro_price.num > (2 * BookDepth + 1) * micro_price.den
    /\ micro_price.num < (BookDepth + 1) * micro_price.den

(* ----------------------------- RiskManager ----------------------------- *)
\* the prices given to update_price, and the mid-prices of the ticks of a
\* market-maker run
RiskPrices == {10, 11, 13}
MidTicks == {100, 101}

\* mutant: a full window is not evicted from
WindowFull_Never(h, w) == FALSE

\* `self.price_history.len() >= self.volatility_window`
WindowFull(h, w) == Len(h) >= w

\* RiskManager::update_price: pop_front when the window is full, push_back
PushPrice(h, w, price) ==
    Append(IF WindowFull(h, w) /\ h # <<>> THEN Tail(h) ELSE h, price)

RECURSIVE SeqSum(_)
SeqSum(h) == IF h = <<>> THEN 0 ELSE Head(h) + SeqSum(Tail(h))

RECURSIVE SeqSumSq(_)
SeqSumSq(h) ==
    IF h = <<>> THEN 0 ELSE Head(h) * Head(h) + SeqSumSq(Tail(h))

\* the largest r with r * r <= x
ISqrt(x) == CHOOSE r \in 0..x : r * r <= x /\ (r + 1) * (r + 1) > x

\* RiskManager::calculate_volatility: 0.0 for fewer than 2 prices, else the
\* population standard deviation, in tenths (truncated)
calculate_volatility(h) ==
    IF Len(h) < 2 THEN 0
    ELSE ISqrt((100 * (Len(h) * SeqSumSq(h) - SeqSum(h) * SeqSum(h)))
                  \div (Len(h) * Len(h)))

\* RiskManager::new with a window of at least one price
RiskInit ==
    /\ RunnerFields("idle", "quiet")
    /\ TrackerIdle /\ PriceIdle /\ BookIdle /\ PredIdle /\ MMIdle
    /\ QuoteIdle /\ MicroIdle /\ IndIdle /\ PosIdle /\ IdIdle /\ GuiIdle
    /\ \E w \in 1..MaxWindow : RiskManagerNew(w)
    /\ mids_seen = {}

not_riskvars ==
    <<runnervars, complib, quotevars, microvars, indvars, posvars, idvars,
      guivars>>

\* RiskManager::update_price
update_price ==
    /\ Len(prices_given) < MaxPrices
    /\ \E price \in RiskPrices :
          /\ price_history' =
                PushPrice(price_history, volatility_window, price)
          /\ prices_given' = Append(prices_given, price)
    /\ UNCHANGED <<volatility_window, mids_seen, not_riskvars>>

RiskNext == update_price

\* a RiskManager and the prices given to it
RiskSpec == RiskInit /\ [][RiskNext]_vars

\* the last n entries of a sequence
LastN(q, n) == SubSeq(q, Len(q) - n + 1, Len(q))

\* C34: after any update_price calls the window holds at most
\* volatility_window prices, the most recent ones given, in the order given;
\* calculate_volatility is 0 while the window holds fewer than 2 prices
C34_RollingWindow ==
    LET n == IF Len(prices_given) < volatility_window
             THEN Len(prices_given) ELSE volatility_window
    IN  /\ Len(price_history) <= volatility_window
        /\ price_history = LastN(prices_given, n)
        /\ Len(price_history) < 2 => calculate_volatility(price_history) = 0

\* more prices than the window holds have been given, the oldest ones are
\* gone and the volatility of the window is not 0
C34_Witness ==
    /\ volatility_window = 2
    /\ Len(prices_given) = MaxPrices
    /\ price_history = <<prices_given[MaxPrices - 1],
                         prices_given[MaxPrices]>>
    /\ prices_given[1] # prices_given[MaxPrices - 1]
    /\ calculate_volatility(price_history) > 0

(* ------------------ the RiskManager of a market-maker run -------------- *)
\* run_strategy: an elapse that returns Ok with a valid depth, after the
\* initial placement, on an update that is not a multiple of
\* UPDATE_INTERVAL: only update_count (a local, not kept) is advanced.  The
\* mid-price of the tick is recorded as history.
MMValidTick ==
    /\ initial_orders_placed
    /\ \E m \in MidTicks : mids_seen' = mids_seen \cup {m}
    /\ UNCHANGED <<price_history, volatility_window, prices_given>>
    /\ UNCHANGED <<not_riskvars>>

MMRunNext ==
    \/ place_initial_orders
    \/ check_and_refill_orders
    \/ ExchangeFill
    \/ ExchangeExpire
    \/ MMValidTick

\* a market-maker run with its ticks between the evaluations
MMRunSpec == MMInit /\ [][MMRunNext]_vars

\* C35: once the valid ticks of a run have shown two different mid-prices,
\* the window of the RiskManager holds mid-prices and the volatility that
\* the reservation price is computed with is not 0
C35_VolatilityFromMids ==
    Cardinality(mids_seen) >= 2 =>
        /\ price_history # <<>>
        /\ calculate_volatility(price_history) # 0

(* ------------------------------- Skip ---------------------------------- *)
\* the last process_commands call of the runner applied a Skip and the
\* runner is in the batch of the file it was running
SkipProcessedInFile ==
    /\ last_call.cmd.k = "Skip"
    /\ last_call.ret
    /\ should_skip
    /\ pc = "batch"
    /\ file_idx \in started

\* C36: once a Skip has been processed while a file is running, the runner
\* abandons the file: it does not advance the simulator of that file again
C36_SkipAbandonsFile ==
    [][SkipProcessedInFile => pos' = pos]_vars

(* ------------------------ closing the window --------------------------- *)
not_guivars ==
    <<runnervars, complib, quotevars, microvars, riskvars, indvars, posvars,
      idvars>>

\* the UI sends a command while its window is open
CloseSend == ~gui_closed /\ TickSend

\* main, after launch_monitor has returned: the command sender is dropped
\* with the window, `let _ = controller.should_stop()` loads the flag, and
\* main waits in strategy_thread.join()
GuiClose ==
    /\ ~gui_closed
    /\ gui_closed' = TRUE
    /\ UNCHANGED not_guivars

\* the steps of the strategy thread
MomRunner ==
    \/ HandleCommandFinish
    \/ WaitChk
    \/ WaitRecv
    \/ MomStartChk
    \/ MomLoopTop
    \/ MomPauseChk
    \/ PauseRecv
    \/ MomPauseStopChk
    \/ PollGate
    \/ PollRecv
    \/ MomPollStopChk
    \/ MomElapse
    \/ Telemetry
    \/ AfterFiles
    \/ Keep1
    \/ Keep2

CloseNext ==
    \/ CloseSend
    \/ GuiClose
    \/ MomRunner

\* run_momentum_with_gui: the strategy thread keeps being scheduled
CloseSpec == MomInit /\ [][CloseNext]_vars /\ WF_vars(MomRunner)

\* run_with_controller has returned (Ok, or Err from create_backtest)
ThreadFinished == pc \in {"done", "failed"}

\* C37: once the window of the monitor is closed the strategy thread
\* terminates, whatever it was doing, so that the join on it returns
C37_CloseTerminates == gui_closed ~> ThreadFinished

(* --------------------------- MomentumIndicator ------------------------- *)
\* the prices given to update, and the thresholds (0.01 and 0.02)
IndPrices == {98, 100, 101, 103}
IndThresholds == {Ratio(1, 100), Ratio(2, 100)}

\* a / b > c / d and a / b < c / d for positive b and d
RatioGreater(x, y) == x.num * y.den > y.num * x.den
RatioLess(x, y) == x.num * y.den < y.num * x.den

\* mutant: the window is cut at lookback_period prices
HistoryOver_AtLookback(h, lookback) == Len(h) > lookback

\* `self.price_history.len() > self.lookback_period + 1`
HistoryOver(h, lookback) == Len(h) > lookback + 1

\* update: push_back, then pop_front when the window is over its length
PricesAfterUpdate(h, lookback, price) ==
    LET pushed == Append(h, price)
    IN  IF HistoryOver(pushed, lookback) THEN Tail(pushed) ELSE pushed

\* update: with two prices in the window the return of the last step is
\* pushed, and the oldest return popped when there are more than
\* lookback_period
ReturnsAfterUpdate(r, h2, lookback) ==
    IF Len(h2) >= 2
    THEN LET prev_price == h2[Len(h2) - 1]
             current_price == h2[Len(h2)]
             pushed == Append(r, Ratio(current_price - prev_price,
                                       prev_price))
         IN  IF Len(pushed) > lookback THEN Tail(pushed) ELSE pushed
    ELSE r

\* calculate_momentum: None for fewer than 2 prices, else
\* (last_price - first_price) / first_price
calculate_momentum(h) ==
    IF Len(h) < 2 THEN NoRatio
    ELSE Ratio(h[Len(h)] - h[1], h[1])

\* generate_signal
generate_signal(h, threshold) ==
    LET momentum == calculate_momentum(h)
    IN  IF momentum = NoRatio THEN "Neutral"
        ELSE IF RatioGreater(momentum, threshold) THEN "Long"
        ELSE IF RatioLess(momentum, Ratio(0 - threshold.num, threshold.den))
             THEN "Short"
        ELSE "Neutral"

\* MomentumIndicator::new
IndInit ==
    /\ RunnerFields("idle", "quiet")
    /\ TrackerIdle /\ PriceIdle /\ BookIdle /\ PredIdle /\ MMIdle
    /\ QuoteIdle /\ MicroIdle /\ RiskIdle /\ PosIdle /\ IdIdle /\ GuiIdle
    /\ ind_price_history = <<>>
    /\ returns_history = <<>>
    /\ lookback_period \in 1..MaxLookback
    /\ momentum_threshold \in IndThresholds
    /\ ind_given = <<>>

not_indvars ==
    <<runnervars, complib, quotevars, microvars, riskvars, posvars, idvars,
      guivars>>

\* MomentumIndicator::update
IndUpdate ==
    /\ Len(ind_given) < MaxUpdates
    /\ \E price \in IndPrices :
         \E h2 \in {PricesAfterUpdate(ind_price_history, lookback_period,
                                      price)} :
            /\ ind_price_history' = h2
            /\ returns_history' =
                  ReturnsAfterUpdate(returns_history, h2, lookback_period)
            /\ ind_given' = Append(ind_given, price)
    /\ UNCHANGED <<lookback_period, momentum_threshold, not_indvars>>

IndNext == IndUpdate

\* a MomentumIndicator and the prices given to it
IndSpec == IndInit /\ [][IndNext]_vars

\* the newest and the oldest of the at most lookback_period + 1 most recent
\* prices given
C38_Newest == ind_given[Len(ind_given)]

C38_Oldest ==
    IF Len(ind_given) <= lookback_period + 1 THEN ind_given[1]
    ELSE ind_given[Len(ind_given) - lookback_period]

\* C38: with two or more prices given, calculate_momentum is
\* (newest - oldest) / oldest over the lookback_period + 1 most recent
\* prices; generate_signal is Long exactly when it is above the threshold,
\* Short exactly when it is below minus the threshold, Neutral otherwise
\* (and with fewer than two prices)
C38_MomentumAndSignal ==
    LET sig == generate_signal(ind_price_history, momentum_threshold)
        t == momentum_threshold
        diff == C38_Newest - C38_Oldest
    IN  /\ Len(ind_given) < 2 => sig = "Neutral"
        /\ Len(ind_given) >= 2 =>
             /\ calculate_momentum(ind_price_history)
                   = Ratio(diff, C38_Oldest)
             /\ sig = "Long" <=> diff * t.den > t.num * C38_Oldest
             /\ sig = "Short" <=> diff * t.den < (0 - t.num) * C38_Oldest
             /\ sig = "Neutral" <=>
                   /\ diff * t.den <= t.num * C38_Oldest
                   /\ diff * t.den >= (0 - t.num) * C38_Oldest

\* more prices than the window holds have been given; over all of them the
\* price fell, over the window it rose by more than the threshold, and the
\* signal is Long
C38_Witness ==
    /\ lookback_period = 1
    /\ Len(ind_given) = 3
    /\ ind_given[1] = 103
    /\ ind_given[2] = 98
    /\ ind_given[3] = 101
    /\ generate_signal(ind_price_history, momentum_threshold) = "Long"

(* ------- the position of the Momentum and the Prediction runner -------- *)
\* The runner is the one named by `strategy` ("momentum" or "prediction").
\* A signal is "Long" (SignalType::Long, PredictionSignal::Up), "Short"
\* (SignalType::Short, PredictionSignal::Down) or "Neutral".  Quantities
\* are in units of position_size, prices in ticks.
PosRunners == {"momentum", "prediction"}
Signals == {"Long", "Short", "Neutral"}
\* the price tick at which an order of the runner is filled
FillPrice == 100
\* position_size, in units of it
position_size == 1

\* the constants added to total_orders: 100 in open_long_position, 200 in
\* open_short_position, 300 and 400 in close_position
OrderIdBase(kind) ==
    CASE kind = "open_long" -> 100
      [] kind = "open_short" -> 200
      [] kind = "close_long" -> 300
      [] kind = "close_short" -> 400

\* the order id of the next order of a kind
OrderIdOf(kind) ==
    IF strategy = "prediction" THEN OrderIdBase(kind) + total_orders
    ELSE next_order_id

\* the kind of order execute_strategy makes for a signal, "none" if it
\* makes none: a position that is due (stop-loss, take-profit, holding
\* time) is closed first; a flat runner opens on a signal; a position is
\* closed on the opposite signal
OrderKind(ps, signal, close_due) ==
    IF ps # "Flat" /\ close_due
    THEN (IF ps = "Long" THEN "close_long" ELSE "close_short")
    ELSE IF ps = "Flat" /\ signal = "Long" THEN "open_long"
    ELSE IF ps = "Flat" /\ signal = "Short" THEN "open_short"
    ELSE IF ps = "Long" /\ signal = "Short" THEN "close_long"
    ELSE IF ps = "Short" /\ signal = "Long" THEN "close_short"
    ELSE "none"

\* open_*_position after a fill: entry_price, position_qty, position_state
Opened(side) ==
    /\ entry_price' = FillPrice
    /\ position_qty' = position_size
    /\ position_state' = side

\* mutant: closing leaves the entry price and the quantity
Flattened_StateOnly ==
    /\ position_state' = "Flat"
    /\ UNCHANGED <<entry_price, position_qty>>

\* the end of close_position, and the reset at the start of a file
Flattened ==
    /\ position_state' = "Flat"
    /\ entry_price' = 0
    /\ position_qty' = 0

\* history: the id of a submitted order is compared with the watched id;
\* any submitted id may become the watched one
Watch(id) ==
    /\ id_reused' = (id_reused \/ id = watched_id)
    /\ watched_id' \in (IF watched_id = 0 THEN {0, id} ELSE {watched_id})

\* MomentumRunner / PredictionRunner::new, before the first file
PosInit ==
    /\ \E r \in PosRunners : RunnerFields("idle", r)
    /\ TrackerIdle /\ PriceIdle /\ BookIdle /\ PredIdle /\ MMIdle
    /\ QuoteIdle /\ MicroIdle /\ RiskIdle /\ IndIdle /\ GuiIdle
    /\ PosIdle
    /\ total_orders = 0
    /\ next_order_id = IF strategy = "momentum" THEN 1 ELSE 0
    /\ watched_id = 0
    /\ id_reused = FALSE

not_posidvars ==
    <<ctlvars, chanvars, hc, pc, runvars, stop_pc, callhist, filehist,
      completed_calls, last_snap, obshist, stophist, tick_errs, position,
      st_mid_price, complib, quotevars, microvars, riskvars, indvars,
      guivars>>

\* run_strategy_with_control up to its tick loop: a new simulator, the
\* position reset
PosFileStart ==
    /\ exec_result = "Ok"
    /\ Flattened
    /\ watched_id' = 0
    /\ UNCHANGED <<exec_result, total_orders, next_order_id, id_reused,
                   strategy, not_posidvars>>

\* execute_strategy for a signal: at most one order is submitted; the
\* submission may fail, the wait for the response may fail (its result is
\* dropped by the momentum runner), the order may be filled or not
ExecuteStrategy ==
    /\ exec_result = "Ok"
    /\ total_orders < MaxOrders
    /\ next_order_id <= MaxOrders
    /\ \E signal \in Signals, close_due \in BOOLEAN :
       \E kind \in {OrderKind(position_state, signal, close_due)} :
          IF kind = "none"
          THEN UNCHANGED <<posvars, idvars>>
          ELSE \E submit_ok, wait_ok, filled \in BOOLEAN :
                 /\ next_order_id' = IF strategy = "momentum"
                                     THEN next_order_id + 1
                                     ELSE next_order_id
                 /\ Watch(OrderIdOf(kind))
                 /\ IF ~submit_ok
                    THEN /\ exec_result' = "Err"
                         /\ UNCHANGED <<position_state, position_qty,
                                        entry_price, total_orders>>
                    ELSE /\ total_orders' = total_orders + 1
                         /\ IF strategy = "prediction" /\ ~wait_ok
                            THEN /\ exec_result' = "Err"
                                 /\ UNCHANGED <<position_state,
                                                position_qty, entry_price>>
                            ELSE /\ exec_result' = "Ok"
                                 /\ CASE kind = "open_long" ->
                                           IF filled THEN Opened("Long")
                                           ELSE UNCHANGED <<position_state,
                                                  position_qty, entry_price>>
                                      [] kind = "open_short" ->
                                           IF filled THEN Opened("Short")
                                           ELSE UNCHANGED <<position_state,
                                                  position_qty, entry_price>>
                                      [] OTHER -> Flattened
    /\ UNCHANGED <<strategy, not_posidvars>>

PosNext ==
    \/ PosFileStart
    \/ ExecuteStrategy

\* the position and the order ids of a run
PosSpec == PosInit /\ [][PosNext]_vars

\* C39: the position changes only between Flat and Long and between Flat
\* and Short, and position_state is Flat exactly when position_qty and
\* entry_price are 0
C39_PositionMachine ==
    /\ [](position_state \in {"Flat", "Long", "Short"})
    /\ [](position_state = "Flat"
             <=> (position_qty = 0 /\ entry_price = 0))
    /\ [][position_state' # position_state
             => (position_state = "Flat" \/ position_state' = "Flat")]_vars

\* a position has been opened after an earlier one was closed
C39_Witness ==
    /\ position_state = "Short"
    /\ position_qty = position_size
    /\ entry_price = FillPrice
    /\ total_orders >= 3

\* C40: no order id of the prediction runner is submitted twice to the
\* simulator of one file
C40_IdsDistinct == strategy = "prediction" => ~id_reused

====
